---- MODULE Spec2Model ----
(***************************************************************************)
(* GeoChat-AI: the location validators, the response grounding parser of   *)
(* services/gemini.ts, the session store of App.tsx (load, migrate,        *)
(* sanitize, save), the conversation controller of App.tsx and the         *)
(* viewport effects of the map component.                                  *)
(*                                                                         *)
(* Numbers.  A coordinate is a JavaScript number.  The model keeps finite  *)
(* numbers in fixed point, in tenths of a degree (48.8 is 488, 90 is 900), *)
(* and keeps NaN and the infinities as values of their own.  Texts are     *)
(* sequences of one-character strings.                                     *)
(***************************************************************************)
EXTENDS Integers, Sequences, FiniteSets, TLC

VARIABLES
  fnIn,             \* input of the pure function under check
  fnOut,            \* its result
  fnDone,           \* whether the function has been applied
  lsSessions,       \* localStorage 'geochat_sessions'
  lsHistory,        \* localStorage 'geochat_history'
  wroteEmpty,       \* some setItem so far carried an empty collection
  phase,            \* "off", "boot" (not mounted yet), "run", "crashed"
  loaded,           \* what the sessions initializer read and returned
  sessions,         \* useState: ChatSession[]
  currentSessionId, \* useState: the active session's id, 0 for null
  messages,         \* useState: the messages on display
  userLocation,     \* useState
  targetLocation,   \* useState
  isLoading,        \* useState
  isSidebarOpen,    \* useState
  requests,         \* the calls to the AI service that have not returned
  clock,            \* Date.now()
  nextUuid,         \* the next crypto.randomUUID()
  mapProps,         \* MapComponent: the props of its last render
  recenterTrigger,  \* MapComponent useState
  commands          \* the calls on the Leaflet map made by the last step

fnVars == <<fnIn, fnOut, fnDone>>
storeVars == <<lsSessions, lsHistory, wroteEmpty>>
appVars == <<phase, loaded, sessions, currentSessionId, messages,
             userLocation, targetLocation, isLoading, isSidebarOpen,
             requests, clock, nextUuid>>
mapVars == <<mapProps, recenterTrigger, commands>>
vars == <<fnVars, storeVars, appVars, mapVars>>

(***************************************************************************)
(* JavaScript values                                                       *)
(***************************************************************************)

\* a value found in a lat / lng field (or any scalar position)
Num(v)  == [k |-> "num", v |-> v]
NaN     == [k |-> "nan", v |-> 0]
PosInf  == [k |-> "inf", v |-> 1]
NegInf  == [k |-> "inf", v |-> -1]
StrVal  == [k |-> "str", v |-> 0]
NullVal == [k |-> "null", v |-> 0]
Undef   == [k |-> "undef", v |-> 0]

\* a value found where a GeoLocation is expected
Loc(lat, lng) == [k |-> "obj", lat |-> lat, lng |-> lng]
NoLoc         == [k |-> "undef", lat |-> Undef, lng |-> Undef]
NullLoc       == [k |-> "null", lat |-> Undef, lng |-> Undef]
PrimLoc       == [k |-> "prim", lat |-> Undef, lng |-> Undef]

\* typeof x === 'number'
TypeofNumber(f) == f.k \in {"num", "nan", "inf"}

\* Number.isNaN(x) / isNaN(x) on a value of type number
IsNaN(f) == f.k = "nan"

\* isFinite(x) on a value of type number
IsFinite(f) == f.k = "num"

\* App.tsx isValidStoredLoc
isValidStoredLoc(loc) ==
  /\ loc.k # "null"
  /\ loc.k # "undef"
  /\ loc.k = "obj"
  /\ TypeofNumber(loc.lat)
  /\ ~IsNaN(loc.lat)
  /\ IsFinite(loc.lat)
  /\ TypeofNumber(loc.lng)
  /\ ~IsNaN(loc.lng)
  /\ IsFinite(loc.lng)

\* MapComponent isValidLocation
isValidLocation(loc) ==
  /\ loc.k # "null"
  /\ loc.k # "undef"
  /\ loc.k = "obj"
  /\ TypeofNumber(loc.lat)
  /\ ~IsNaN(loc.lat)
  /\ IsFinite(loc.lat)
  /\ TypeofNumber(loc.lng)
  /\ ~IsNaN(loc.lng)
  /\ IsFinite(loc.lng)

(***************************************************************************)
(* The GeoLocation invariant the claims speak of: both fields finite       *)
(* numbers, -90 <= lat <= 90, -180 <= lng <= 180 (in tenths of a degree).  *)
(***************************************************************************)
InRangeLat(f) == f.k = "num" /\ -900 <= f.v /\ f.v <= 900
InRangeLng(f) == f.k = "num" /\ -1800 <= f.v /\ f.v <= 1800
ValidGeoLocation(loc) ==
  loc.k = "obj" /\ InRangeLat(loc.lat) /\ InRangeLng(loc.lng)

(***************************************************************************)
(* Texts and the two regular expressions of services/gemini.ts             *)
(***************************************************************************)
Digits == {"0", "1", "2", "3", "4", "5", "6", "7", "8", "9"}
DigitVal(c) ==
  CASE c = "0" -> 0 [] c = "1" -> 1 [] c = "2" -> 2 [] c = "3" -> 3
    [] c = "4" -> 4 [] c = "5" -> 5 [] c = "6" -> 6 [] c = "7" -> 7
    [] c = "8" -> 8 [] c = "9" -> 9

\* \s of a JavaScript regular expression and of String.prototype.trim
IsSpace(c) == c \in {" ", "\n", "\t"}

\* t[i] or "" past the end
CharAt(t, i) == IF i >= 1 /\ i <= Len(t) THEN t[i] ELSE ""

\* the literal lit occurs in t at position i
HasLit(t, i, lit) ==
  /\ i + Len(lit) - 1 <= Len(t)
  /\ \A j \in 1..Len(lit) : t[i + j - 1] = lit[j]

\* \d* from position i: the position after the longest run of digits
RECURSIVE ScanDigits(_, _)
ScanDigits(t, i) ==
  IF CharAt(t, i) \in Digits THEN ScanDigits(t, i + 1) ELSE i

\* \s* from position i
RECURSIVE ScanSpaces(_, _)
ScanSpaces(t, i) ==
  IF IsSpace(CharAt(t, i)) THEN ScanSpaces(t, i + 1) ELSE i

\* (-?\d+\.?\d*) from position i: the position after the group, 0 if the
\* group does not match.  Each piece is followed in both patterns by a
\* character that is neither a digit nor a dot (or by the end of the
\* pattern), so the greedy scan is the only way the group can match.
ScanNumber(t, i) ==
  LET i1 == IF CharAt(t, i) = "-" THEN i + 1 ELSE i
      i2 == ScanDigits(t, i1)
      i3 == IF CharAt(t, i2) = "." THEN i2 + 1 ELSE i2
  IN  IF i2 = i1 THEN 0 ELSE ScanDigits(t, i3)

NoMatch == [ok |-> FALSE, from |-> 0, to |-> 0, g1 |-> <<>>, g2 |-> <<>>]

\* a pattern  <open> NUMBER <mid> [\s*] <mid2> NUMBER <close>  tried at i
PairAt(t, i, open, mid, spaces, mid2, close) ==
  IF ~HasLit(t, i, open) THEN NoMatch
  ELSE
    LET a1 == i + Len(open)
        a2 == ScanNumber(t, a1)
    IN  IF a2 = 0 \/ ~HasLit(t, a2, mid) THEN NoMatch
        ELSE
          LET b0 == IF spaces THEN ScanSpaces(t, a2 + Len(mid)) ELSE a2 + Len(mid)
          IN  IF ~HasLit(t, b0, mid2) THEN NoMatch
              ELSE
                LET b1 == b0 + Len(mid2)
                    b2 == ScanNumber(t, b1)
                IN  IF b2 = 0 \/ ~HasLit(t, b2, close) THEN NoMatch
                    ELSE [ok |-> TRUE, from |-> i, to |-> b2 + Len(close) - 1,
                          g1 |-> SubSeq(t, a1, a2 - 1),
                          g2 |-> SubSeq(t, b1, b2 - 1)]

\* the leftmost match of a pattern tried at every position from i on
RECURSIVE FirstPair(_, _, _, _, _, _, _)
FirstPair(t, i, open, mid, spaces, mid2, close) ==
  IF i > Len(t) THEN NoMatch
  ELSE LET m == PairAt(t, i, open, mid, spaces, mid2, close)
       IN  IF m.ok THEN m
           ELSE FirstPair(t, i + 1, open, mid, spaces, mid2, close)

\* COORDINATE_REGEX = /\{\{LAT:(-?\d+\.?\d*),\s*LNG:(-?\d+\.?\d*)\}\}/
COORDINATE_REGEX(t) ==
  FirstPair(t, 1, <<"{", "{", "L", "A", "T", ":">>, <<",">>, TRUE,
            <<"L", "N", "G", ":">>, <<"}", "}">>)

\* /!3d(-?\d+\.?\d*)!4d(-?\d+\.?\d*)/
MAPS_REGEX(t) ==
  FirstPair(t, 1, <<"!", "3", "d">>, <<"!", "4", "d">>, FALSE, <<>>, <<>>)

\* the digits of d read as a decimal integer
RECURSIVE DigitsValue(_)
DigitsValue(d) ==
  IF d = <<>> THEN 0
  ELSE 10 * DigitsValue(SubSeq(d, 1, Len(d) - 1)) + DigitVal(d[Len(d)])

\* parseFloat on a text that matches -?\d+\.?\d*, in tenths: the integer
\* part and the first decimal (the model's texts carry at most one)
parseFloat(g) ==
  LET neg  == CharAt(g, 1) = "-"
      s    == IF neg THEN 2 ELSE 1
      e    == ScanDigits(g, s)
      frac == IF CharAt(g, e) = "." /\ CharAt(g, e + 1) \in Digits
              THEN DigitVal(g[e + 1]) ELSE 0
      mag  == 10 * DigitsValue(SubSeq(g, s, e - 1)) + frac
  IN  IF e = s THEN NaN ELSE Num(IF neg THEN 0 - mag ELSE mag)

\* String.prototype.indexOf(pat), 0 if pat does not occur
RECURSIVE IndexOf(_, _, _)
IndexOf(t, pat, i) ==
  IF i + Len(pat) - 1 > Len(t) THEN 0
  ELSE IF HasLit(t, i, pat) THEN i ELSE IndexOf(t, pat, i + 1)

\* text.replace(pat, ''): the first occurrence of the string pat removed
ReplaceFirst(t, pat) ==
  LET i == IndexOf(t, pat, 1)
  IN  IF i = 0 THEN t
      ELSE SubSeq(t, 1, i - 1) \o SubSeq(t, i + Len(pat), Len(t))

\* String.prototype.trim
RECURSIVE TrimLeft(_)
TrimLeft(t) ==
  IF t # <<>> /\ IsSpace(t[1]) THEN TrimLeft(Tail(t)) ELSE t
RECURSIVE TrimRight(_)
TrimRight(t) ==
  IF t # <<>> /\ IsSpace(t[Len(t)])
  THEN TrimRight(SubSeq(t, 1, Len(t) - 1)) ELSE t
Trim(t) == TrimLeft(TrimRight(t))

(***************************************************************************)
(* services/gemini.ts: the response grounding parser                       *)
(***************************************************************************)

\* a relatedLocations value: undefined or an array
RelArr(items) == [k |-> "arr", items |-> items]
NoRel         == [k |-> "undef", items |-> <<>>]

\* a grounding chunk: web and / or maps, the maps part with or without a uri
NoUri == [k |-> "undef", s |-> <<>>]
Uri(s) == [k |-> "str", s |-> s]
WebChunk == [web |-> TRUE, maps |-> FALSE, uri |-> NoUri]
PlaceChunk(uri) == [web |-> FALSE, maps |-> TRUE, uri |-> uri]

\* a groundingChunks value: undefined or an array
NoChunks == [k |-> "undef", items |-> <<>>]
Chunks(items) == [k |-> "arr", items |-> items]

\* line 84: the text that stands for an empty reply
DefaultAnswer ==
  <<"I", " ", "c", "o", "u", "l", "d", "n", "'", "t", " ", "f", "i", "n", "d", " ", "a", "n", " ", "a", "n", "s", "w", "e", "r", " ", "f", "o", "r", " ", "t", "h", "a", "t", ".">>

\* line 84: response.text || "I couldn't find an answer for that."
ReplyText(rawText) == IF rawText = <<>> THEN DefaultAnswer ELSE rawText

\* lines 88-98: the pair of the hidden coordinate tag, kept unless a number
\* is NaN
SuggestedOf(text) ==
  LET match == COORDINATE_REGEX(text)
      lat   == parseFloat(match.g1)
      lng   == parseFloat(match.g2)
  IN  IF match.ok /\ ~IsNaN(lat) /\ ~IsNaN(lng) THEN Loc(lat, lng) ELSE NoLoc

\* lines 90-102: the display text
CleanTextOf(text) ==
  LET match == COORDINATE_REGEX(text)
  IN  IF match.ok
      THEN Trim(ReplaceFirst(text, SubSeq(text, match.from, match.to)))
      ELSE text

\* lines 108-118: what one chunk pushes on relatedLocations
ChunkLocations(chunk) ==
  IF chunk.maps /\ chunk.uri.k = "str" /\ chunk.uri.s # <<>>
  THEN LET mapsMatch == MAPS_REGEX(chunk.uri.s)
           lat == parseFloat(mapsMatch.g1)
           lng == parseFloat(mapsMatch.g2)
       IN  IF mapsMatch.ok /\ ~IsNaN(lat) /\ ~IsNaN(lng)
           THEN <<Loc(lat, lng)>> ELSE <<>>
  ELSE <<>>

\* lines 105-121: groundingChunks.forEach
RECURSIVE RelatedOf(_)
RelatedOf(items) ==
  IF items = <<>> THEN <<>>
  ELSE ChunkLocations(Head(items)) \o RelatedOf(Tail(items))

\* lines 84-131: the model message built from a reply, less id and timestamp
ParseReply(rawText, groundingChunks) ==
  LET text == ReplyText(rawText)
      relatedLocations ==
        IF groundingChunks.k = "arr" THEN RelatedOf(groundingChunks.items)
        ELSE <<>>
  IN  [text |-> CleanTextOf(text),
       groundingChunks |-> groundingChunks,
       suggestedLocation |-> SuggestedOf(text),
       relatedLocations |->
         IF Len(relatedLocations) > 0 THEN RelArr(relatedLocations) ELSE NoRel]

(***************************************************************************)
(* App.tsx: messages, sessions and the two stored records                  *)
(***************************************************************************)

\* crypto.randomUUID() is a positive number here; 0 stands for the message
\* id 'welcome', and for a session id that is null or undefined
Msg(id, role, text, timestamp, chunks, sugg, rel) ==
  [k |-> "obj", id |-> id, role |-> role, text |-> text,
   timestamp |-> timestamp, groundingChunks |-> chunks,
   suggestedLocation |-> sugg, relatedLocations |-> rel]

\* what stands in a messages array besides a Message: an object with no
\* fields, a primitive, null
OddMsg(kind) == [Msg(0, "", <<>>, 0, NoChunks, NoLoc, NoRel) EXCEPT !.k = kind]
EmptyMsg == OddMsg("empty")
PrimMsg  == OddMsg("prim")
NullMsg  == OddMsg("null")

\* a messages (or top-level) value: an array, or not one
Arr(items)  == [k |-> "arr", items |-> items]
NotArr(kind) == [k |-> kind, items |-> <<>>]

\* an element of a stored sessions array
StoredSession(id, title, msgs, updatedAt) ==
  [k |-> "obj", id |-> id, title |-> title, messages |-> msgs,
   updatedAt |-> updatedAt]
OddSession(kind) == [StoredSession(0, <<>>, NotArr("undef"), 0) EXCEPT !.k = kind]

\* a ChatSession in memory
Session(id, title, msgs, updatedAt) ==
  [id |-> id, title |-> title, messages |-> msgs, updatedAt |-> updatedAt]

\* a localStorage record: getItem gives null, the empty string, a text
\* JSON.parse rejects, or a text JSON.parse turns into val
Absent    == [k |-> "absent", val |-> NotArr("null")]
EmptyText == [k |-> "empty", val |-> NotArr("null")]
Garbage   == [k |-> "garbage", val |-> NotArr("null")]
Json(val) == [k |-> "json", val |-> val]

NewChatTitle  == <<"N", "e", "w", " ", "C", "h", "a", "t">>
RestoredTitle == <<"R", "e", "s", "t", "o", "r", "e", "d", " ", "C", "h", "a", "t">>

\* the result of a piece of code that may throw
Ok(val)   == [exc |-> FALSE, val |-> val]
Threw     == [exc |-> TRUE, val |-> <<>>]

\* lines 48-52 / 63-67, the callback of messages.map, with the
\* suggestedLocation kept as stored
SanitizeMessage_KeepSuggested(m) ==
  IF m.k = "null" THEN Threw
  ELSE IF m.relatedLocations.k \notin {"undef", "null", "arr"} THEN Threw
  ELSE Ok([ (IF m.k = "prim" THEN EmptyMsg ELSE m) EXCEPT
         !.relatedLocations =
            IF m.relatedLocations.k = "arr"
            THEN RelArr(SelectSeq(m.relatedLocations.items, isValidStoredLoc))
            ELSE NoRel ])

\* lines 48-52 / 63-67, the callback of messages.map
SanitizeMessage(m) ==
  IF m.k = "null" THEN Threw                 \* null.suggestedLocation
  ELSE IF m.relatedLocations.k \notin {"undef", "null", "arr"}
       THEN Threw                            \* .filter is not a function
  ELSE Ok([ (IF m.k = "prim" THEN EmptyMsg ELSE m) EXCEPT
         !.suggestedLocation =
            IF isValidStoredLoc(m.suggestedLocation)
            THEN m.suggestedLocation ELSE NoLoc,
         !.relatedLocations =
            IF m.relatedLocations.k = "arr"
            THEN RelArr(SelectSeq(m.relatedLocations.items, isValidStoredLoc))
            ELSE NoRel ])

\* lines 48 / 63: messages.map(sanitize), which throws when a call throws
RECURSIVE SanitizeMessages(_)
SanitizeMessages(items) ==
  IF items = <<>> THEN Ok(<<>>)
  ELSE LET h == SanitizeMessage(Head(items))
       IN  IF h.exc THEN Threw
           ELSE LET t == SanitizeMessages(Tail(items))
                IN  IF t.exc THEN Threw ELSE Ok(<<h.val>> \o t.val)

\* lines 46-53, the callback of parsedSessions.map
SanitizeSession(s) ==
  IF s.k # "obj" \/ s.messages.k # "arr" THEN Threw   \* s.messages.map
  ELSE LET ms == SanitizeMessages(s.messages.items)
       IN  IF ms.exc THEN Threw
           ELSE Ok(Session(s.id, s.title, ms.val, s.updatedAt))

\* line 46: parsedSessions.map(sanitize), which throws when a call throws
RECURSIVE SanitizeSessions(_)
SanitizeSessions(items) ==
  IF items = <<>> THEN Ok(<<>>)
  ELSE LET h == SanitizeSession(Head(items))
       IN  IF h.exc THEN Threw
           ELSE LET t == SanitizeSessions(Tail(items))
                IN  IF t.exc THEN Threw ELSE Ok(<<h.val>> \o t.val)

\* lines 57-77: the legacy record.  fell: the block fell through to the
\* final return []
MigrateLegacy(oldHistory, uuid, now) ==
  IF oldHistory.k \in {"absent", "empty"}
  THEN [exc |-> FALSE, val |-> <<>>, fell |-> TRUE, legacy |-> TRUE]
  ELSE IF oldHistory.k = "garbage"
  THEN [exc |-> TRUE, val |-> <<>>, fell |-> FALSE, legacy |-> TRUE]
  ELSE IF oldHistory.val.k = "arr" /\ Len(oldHistory.val.items) > 0
  THEN LET ms == SanitizeMessages(oldHistory.val.items)
       IN  IF ms.exc
           THEN [exc |-> TRUE, val |-> <<>>, fell |-> FALSE, legacy |-> TRUE]
           ELSE [exc |-> FALSE,
                 val |-> <<Session(uuid, RestoredTitle, ms.val, now)>>,
                 fell |-> FALSE, legacy |-> TRUE]
  ELSE [exc |-> FALSE, val |-> <<>>, fell |-> TRUE, legacy |-> TRUE]

\* the try block with an empty multi-session array treated as no record
TryLoad_EmptyFallsThrough(savedSessions, oldHistory, uuid, now) ==
  IF savedSessions.k \in {"absent", "empty"}
  THEN MigrateLegacy(oldHistory, uuid, now)
  ELSE IF savedSessions.k = "garbage"
  THEN [exc |-> TRUE, val |-> <<>>, fell |-> FALSE, legacy |-> FALSE]
  ELSE IF savedSessions.val.k = "arr" /\ Len(savedSessions.val.items) > 0
  THEN LET ss == SanitizeSessions(savedSessions.val.items)
       IN  [exc |-> ss.exc, val |-> ss.val, fell |-> FALSE, legacy |-> FALSE]
  ELSE MigrateLegacy(oldHistory, uuid, now)

\* lines 40-77 without the catch: what the try block returns or throws,
\* and whether it read the legacy record
TryLoad(savedSessions, oldHistory, uuid, now) ==
  IF savedSessions.k \in {"absent", "empty"}
  THEN MigrateLegacy(oldHistory, uuid, now)
  ELSE IF savedSessions.k = "garbage"
  THEN [exc |-> TRUE, val |-> <<>>, fell |-> FALSE, legacy |-> FALSE]
  ELSE IF savedSessions.val.k = "arr"
  THEN LET ss == SanitizeSessions(savedSessions.val.items)
       IN  [exc |-> ss.exc, val |-> ss.val, fell |-> FALSE, legacy |-> FALSE]
  ELSE MigrateLegacy(oldHistory, uuid, now)

\* the load with an exception of the try block left to escape
LoadSessions_NoCatch(savedSessions, oldHistory, uuid, now) ==
  LET r == TryLoad(savedSessions, oldHistory, uuid, now)
  IN  [sessions |-> r.val, failed |-> r.exc, legacy |-> r.legacy,
       migrated |-> ~r.exc /\ r.legacy /\ ~r.fell]

\* lines 39-82: the initializer of the sessions state.  failed: an
\* exception left the initializer; legacy: geochat_history was read;
\* migrated: the result is the migrated session
LoadSessions(savedSessions, oldHistory, uuid, now) ==
  LET r == TryLoad(savedSessions, oldHistory, uuid, now)
  IN  [sessions |-> IF r.exc THEN <<>> ELSE r.val, failed |-> FALSE,
       legacy |-> r.legacy, migrated |-> ~r.exc /\ r.legacy /\ ~r.fell]

\* JSON.stringify then JSON.parse of a number field: NaN and the
\* infinities are written as null
JsonField(f) == IF f.k \in {"nan", "inf"} THEN NullVal ELSE f
JsonLoc(l) == IF l.k = "obj" THEN Loc(JsonField(l.lat), JsonField(l.lng)) ELSE l
JsonRel(r) ==
  IF r.k = "arr" THEN RelArr([i \in 1..Len(r.items) |-> JsonLoc(r.items[i])])
  ELSE r
JsonMsg(m) ==
  [m EXCEPT !.suggestedLocation = JsonLoc(m.suggestedLocation),
            !.relatedLocations = JsonRel(m.relatedLocations)]
JsonSession(s) ==
  StoredSession(s.id, s.title,
                Arr([i \in 1..Len(s.messages) |-> JsonMsg(s.messages[i])]),
                s.updatedAt)

\* line 104: what JSON.stringify(sessions) leaves in geochat_sessions
Stringify(ss) == Json(Arr([i \in 1..Len(ss) |-> JsonSession(ss[i])]))

(***************************************************************************)
(* App.tsx: the component state, its effects and its handlers              *)
(***************************************************************************)

WelcomeText ==
  <<"H", "e", "l", "l", "o", "!", " ", "I", "'", "m", " ", "G", "e", "o", "C", "h", "a", "t", ".", " ", "I", " ", "c", "a", "n", " ", "h", "e", "l", "p", " ", "y", "o", "u", " ", "f", "i", "n", "d", " ", "p", "l", "a", "c", "e", "s", ",", " ", "c", "h", "e", "c", "k", " ", "d", "e", "t", "a", "i", "l", "e", "d", " ", "i", "n", "f", "o", "r", "m", "a", "t", "i", "o", "n", ",", " ", "a", "n", "d", " ", "n", "a", "v", "i", "g", "a", "t", "e", " ", "u", "s", "i", "n", "g", " ", "G", "o", "o", "g", "l", "e", " ", "M", "a", "p", "s", " ", "d", "a", "t", "a", ".", " ", "W", "h", "e", "r", "e", " ", "a", "r", "e", " ", "w", "e", " ", "h", "e", "a", "d", "i", "n", "g", " ", "t", "o", "d", "a", "y", "?">>
ApologyText ==
  <<"I", "'", "m", " ", "h", "a", "v", "i", "n", "g", " ", "t", "r", "o", "u", "b", "l", "e", " ", "c", "o", "n", "n", "e", "c", "t", "i", "n", "g", " ", "t", "o", " ", "m", "y", " ", "m", "a", "p", " ", "d", "a", "t", "a", " ", "r", "i", "g", "h", "t", " ", "n", "o", "w", ".", " ", "P", "l", "e", "a", "s", "e", " ", "t", "r", "y", " ", "a", "g", "a", "i", "n", ".">>

\* lines 138-148: the session createNewSession builds
NewSession(uuid, now) ==
  Session(uuid, NewChatTitle,
          <<Msg(0, "model", WelcomeText, now, NoChunks, NoLoc, NoRel)>>, now)

\* x put into a list sorted by updatedAt, newest first, behind its equals
RECURSIVE InsertDesc(_, _)
InsertDesc(x, sorted) ==
  IF sorted = <<>> THEN <<x>>
  ELSE IF Head(sorted).updatedAt >= x.updatedAt
       THEN <<Head(sorted)>> \o InsertDesc(x, Tail(sorted))
       ELSE <<x>> \o sorted

\* sessions.sort((a, b) => b.updatedAt - a.updatedAt): stable, in place
RECURSIVE SortDesc(_)
SortDesc(ss) ==
  IF ss = <<>> THEN <<>>
  ELSE InsertDesc(ss[Len(ss)], SortDesc(SubSeq(ss, 1, Len(ss) - 1)))

\* a value is truthy
TruthyLoc(l) == l.k \in {"obj", "prim"}

\* line 164: [...messages].reverse().find(m => m.suggestedLocation), the
\* index of the last message with a truthy suggestedLocation, 0 if none
LastSuggested(ms) ==
  IF \E i \in 1..Len(ms) : TruthyLoc(ms[i].suggestedLocation)
  THEN CHOOSE i \in 1..Len(ms) :
         /\ TruthyLoc(ms[i].suggestedLocation)
         /\ \A j \in (i + 1)..Len(ms) : ~TruthyLoc(ms[j].suggestedLocation)
  ELSE 0

\* line 158: sessions.find(s => s.id === sessionId), the index of the first
\* session with the id, 0 if none
FindSession(ss, sessionId) ==
  IF \E i \in 1..Len(ss) : ss[i].id = sessionId
  THEN CHOOSE i \in 1..Len(ss) :
         ss[i].id = sessionId /\ \A j \in 1..(i - 1) : ss[j].id # sessionId
  ELSE 0

\* line 117: messages.find(m => m.role === 'user'), the index of the first
\* message of the user, 0 if none
FirstUser(ms) ==
  IF \E i \in 1..Len(ms) : ms[i].role = "user"
  THEN CHOOSE i \in 1..Len(ms) :
         ms[i].role = "user" /\ \A j \in 1..(i - 1) : ms[j].role # "user"
  ELSE 0

\* lines 164-169: the map target loadSession restores
RestoredTarget(ms) ==
  LET i == LastSuggested(ms)
  IN  IF i # 0 /\ isValidStoredLoc(ms[i].suggestedLocation)
      THEN ms[i].suggestedLocation ELSE NullLoc

\* lines 157-173: loadSession over the sessions of the render it runs in
LoadSession(ss, sessionId) ==
  LET i == FindSession(ss, sessionId)
  IN  IF i = 0 THEN [found |-> FALSE, messages |-> <<>>, target |-> NullLoc]
      ELSE [found |-> TRUE, messages |-> ss[i].messages,
            target |-> RestoredTarget(ss[i].messages)]

TitleMax == 30

\* the sync effect without the test title === 'New Chat' of line 116
NewTitle_Always(title, ms) ==
  LET i == FirstUser(ms)
  IN  IF Len(ms) > 1 /\ i # 0
      THEN IF Len(ms[i].text) > TitleMax
           THEN SubSeq(ms[i].text, 1, TitleMax) \o <<".", ".", ".">>
           ELSE ms[i].text
      ELSE title

\* lines 115-122: the title the sync effect gives a session
NewTitle(title, ms) ==
  LET i == FirstUser(ms)
  IN  IF title = NewChatTitle /\ Len(ms) > 1 /\ i # 0
      THEN IF Len(ms[i].text) > TitleMax
           THEN SubSeq(ms[i].text, 1, TitleMax) \o <<".", ".", ".">>
           ELSE ms[i].text
      ELSE title

\* the sync effect writing into the first session of the collection
SyncEffect_First(ss, ms, cur, now) ==
  IF cur = 0 THEN ss
  ELSE [i \in 1..Len(ss) |->
          IF i = 1
          THEN Session(ss[i].id, NewTitle(ss[i].title, ms), ms, now)
          ELSE ss[i]]

\* lines 109-132: the sync effect, run after a render in which messages or
\* currentSessionId changed
SyncEffect(ss, ms, cur, now) ==
  IF cur = 0 THEN ss
  ELSE [i \in 1..Len(ss) |->
          IF ss[i].id = cur
          THEN Session(ss[i].id, NewTitle(ss[i].title, ms), ms, now)
          ELSE ss[i]]

\* the save effect with the test of line 103 left out
ShouldSave_Always(ss) == TRUE

\* line 103: the save effect writes only a collection that holds a session
ShouldSave(ss) == Len(ss) > 0

\* lines 102-106: the save effect, run after a render in which sessions
\* changed: the record it leaves, given the record before
SaveEffect(record, ss) == IF ShouldSave(ss) THEN Stringify(ss) ELSE record

\* line 104 is reached with an empty collection
EmptyWrite(ss) == ShouldSave(ss) /\ Len(ss) = 0

\* the sidebar sorting a copy, [...sessions].sort(...): the array stays
Render_Unsorted(ss, sidebar) == ss

\* line 364: the sidebar, when open, sorts the sessions array it renders
Render(ss, sidebar) == IF sidebar THEN SortDesc(ss) ELSE ss


\* the sequences over S of length n or less
RECURSIVE SeqsUpTo(_, _)
SeqsUpTo(S, n) ==
  IF n = 0 THEN {<<>>}
  ELSE LET shorter == SeqsUpTo(S, n - 1)
       IN  shorter \cup {Append(s, x) : s \in shorter, x \in S}

(***************************************************************************)
(* The state of the application                                            *)
(***************************************************************************)
\* gemini.ts lines 17-21: a call of sendMessageToGemini, by what it is
\* given; history is what line 26 makes of the first argument
Request(history, contextLocation) ==
  [history |-> history, contextLocation |-> contextLocation]
NoRequest == <<>>
NotLoaded ==
  [saved |-> Absent, uuid |-> 0, now |-> 0,
   result |-> [sessions |-> <<>>, failed |-> FALSE, legacy |-> FALSE,
               migrated |-> FALSE]]

MaxUuid  == 3
MaxClock == 4
MaxSessions == 2

\* lines 25-30, 84, 88: the state of a component that is not mounted
\* the map component before its first render
NoProps ==
  [mounted |-> FALSE, userLocation |-> NullLoc, targetLocation |-> NullLoc,
   relatedLocations |-> NoRel]
MapOff ==
  /\ mapProps = NoProps
  /\ recenterTrigger = 0
  /\ commands = <<>>

Unmounted(p) ==
  /\ MapOff
  /\ phase = p
  /\ loaded = NotLoaded
  /\ sessions = <<>>
  /\ currentSessionId = 0
  /\ messages = <<>>
  /\ userLocation = NullLoc
  /\ targetLocation = NullLoc
  /\ isLoading = FALSE
  /\ isSidebarOpen = FALSE
  /\ requests = NoRequest

\* the specifications of the pure functions leave the application off
AppOff ==
  /\ Unmounted("off")
  /\ lsSessions = Absent
  /\ lsHistory = Absent
  /\ wroteEmpty = FALSE
  /\ clock = 3
  /\ nextUuid = 1
FnOff ==
  /\ fnIn = <<>>
  /\ fnOut = <<>>
  /\ fnDone = FALSE

\* lines 92-93, then the renders that follow: createNewSession gives the
\* sessions [fresh]; the save effect runs on them, the sync effect stamps the
\* active session, the save effect runs again
MountedFresh(fresh) ==
  /\ sessions' = SyncEffect(<<fresh>>, fresh.messages, fresh.id, clock)
  /\ currentSessionId' = fresh.id
  /\ messages' = fresh.messages
  /\ targetLocation' = NullLoc
  /\ lsSessions' =
       SaveEffect(SaveEffect(SaveEffect(lsSessions, <<>>), <<fresh>>),
                  sessions')
  /\ wroteEmpty' = (wroteEmpty \/ EmptyWrite(<<>>) \/ EmptyWrite(<<fresh>>)
                      \/ EmptyWrite(sessions'))
  /\ nextUuid' = nextUuid + 1

\* lines 94-97, then the renders that follow: loadSession(cur) over the
\* sorted sessions; the save effect of the first render writes the array the
\* effect before it sorted; the sync effect stamps the active session and
\* the save effect runs again (the sync effect returns at once when the
\* id is undefined)
MountedStored(sorted, cur, ld, usedUuid) ==
  /\ sessions' = SyncEffect(sorted, ld.messages, cur, clock)
  /\ currentSessionId' = cur
  /\ messages' = ld.messages
  /\ targetLocation' = ld.target
  /\ lsSessions' =
       IF cur # 0 THEN SaveEffect(SaveEffect(lsSessions, sorted), sessions')
       ELSE SaveEffect(lsSessions, sorted)
  /\ wroteEmpty' = (wroteEmpty \/ EmptyWrite(sorted)
                      \/ (cur # 0 /\ EmptyWrite(sessions')))
  /\ nextUuid' = IF usedUuid THEN nextUuid + 1 ELSE nextUuid

\* lines 91-99: the effect that ensures an active session, on the sessions
\* the initializer returned
Mounted(L, sorted) ==
  IF L.failed
  THEN /\ phase' = "crashed"
       /\ UNCHANGED <<sessions, currentSessionId, messages, targetLocation,
                      lsSessions, wroteEmpty, nextUuid>>
  ELSE /\ phase' = "run"
       /\ IF Len(sorted) = 0
          THEN MountedFresh(NewSession(nextUuid, clock))
          ELSE MountedStored(sorted, sorted[1].id,
                             LoadSession(sorted, sorted[1].id), L.migrated)

\* lines 39-106: the first render and the effects that follow it
Mount ==
  /\ phase = "boot"
  /\ nextUuid <= MaxUuid
  /\ loaded' = [saved |-> lsSessions, uuid |-> nextUuid, now |-> clock,
                result |-> LoadSessions(lsSessions, lsHistory, nextUuid, clock)]
  /\ Mounted(loaded'.result, SortDesc(loaded'.result.sessions))
  /\ UNCHANGED <<fnVars, mapVars, lsHistory, userLocation, isLoading, isSidebarOpen,
                 requests, clock>>

\* the page is loaded again: the component state is gone, the stored
\* records stay
Reload ==
  /\ phase = "run"
  /\ phase' = "boot"
  /\ loaded' = NotLoaded
  /\ sessions' = <<>>
  /\ currentSessionId' = 0
  /\ messages' = <<>>
  /\ userLocation' = NullLoc
  /\ targetLocation' = NullLoc
  /\ isLoading' = FALSE
  /\ isSidebarOpen' = FALSE
  /\ requests' = NoRequest
  /\ clock < MaxClock
  /\ clock' = clock + 1
  /\ UNCHANGED <<fnVars, mapVars, storeVars, nextUuid>>

\* time passes while the page is open
Tick ==
  /\ phase \in {"boot", "run"}
  /\ clock < MaxClock
  /\ clock' = clock + 1
  /\ UNCHANGED <<fnVars, mapVars, storeVars, phase, loaded, sessions, currentSessionId,
                 messages, userLocation, targetLocation, isLoading,
                 isSidebarOpen, requests, nextUuid>>

(***************************************************************************)
(* What the two records can hold when the page opens                       *)
(***************************************************************************)
TextHi == <<"h", "i">>
TextOk == <<"o", "k">>

StoredUser == Msg(-1, "user", TextHi, 1, NoChunks, NoLoc, NoRel)
StoredGood ==
  Msg(-2, "model", TextOk, 1, Chunks(<<WebChunk>>), Loc(Num(488), Num(22)),
      RelArr(<<Loc(Num(356), Num(1396)), Loc(NullVal, Num(0)),
               Loc(Num(-900), Num(1800))>>))
StoredFar ==
  Msg(-3, "model", TextOk, 2, NoChunks, Loc(Num(910), Num(0)),
      RelArr(<<Loc(Num(950), Num(2000)), Loc(Num(10), Num(20))>>))
StoredInf ==
  Msg(-4, "model", TextOk, 2, NoChunks, Loc(PosInf, Num(0)),
      [k |-> "null", items |-> <<>>])
StoredOdd ==
  Msg(-5, "model", TextOk, 2, NoChunks, PrimLoc,
      RelArr(<<NullLoc, PrimLoc, Loc(StrVal, Num(0)), Loc(Num(0), Undef)>>))
StoredNoFilter ==
  Msg(-6, "model", TextOk, 2, NoChunks, NoLoc, [k |-> "prim", items |-> <<>>])

StoredMessages ==
  {StoredUser, StoredGood, StoredFar, StoredInf, StoredOdd, StoredNoFilter,
   NullMsg, PrimMsg}

MaxStoredMessages == 2
MaxStoredSessions == 2

StoredMessageLists == SeqsUpTo(StoredMessages, MaxStoredMessages)

StoredTitle == <<"T", "r", "i", "p">>

\* one session holding any of the message lists
RichSessionRecords ==
  {Json(Arr(<<StoredSession(-1, StoredTitle, Arr(ms), 1)>>)) :
     ms \in StoredMessageLists}

\* arrays of sessions, well formed or not
StoredSessions ==
  { OddSession("null"), OddSession("prim"),
    StoredSession(-1, StoredTitle, NotArr("undef"), 1),
    StoredSession(-1, NewChatTitle, Arr(<<StoredUser, StoredFar>>), 1),
    StoredSession(-2, StoredTitle, Arr(<<StoredGood, StoredOdd>>), 2),
    StoredSession(-3, StoredTitle, Arr(<<>>), 2),
    StoredSession(0, StoredTitle, Arr(<<StoredUser>>), 1) }
ShapedSessionRecords ==
  {Absent, EmptyText, Garbage, Json(NotArr("null")), Json(NotArr("prim")),
   Json(NotArr("obj"))}
    \cup {Json(Arr(ss)) : ss \in SeqsUpTo(StoredSessions, MaxStoredSessions)}

HistoryRecords ==
  {Absent, EmptyText, Garbage, Json(NotArr("null")), Json(NotArr("obj"))}
    \cup {Json(Arr(ms)) : ms \in StoredMessageLists}

InitLoad ==
  /\ FnOff
  /\ Unmounted("boot")
  /\ wroteEmpty = FALSE
  /\ clock = 3
  /\ nextUuid = 1
  /\ \/ /\ lsSessions \in RichSessionRecords
        /\ lsHistory = Absent
     \/ /\ lsSessions \in ShapedSessionRecords
        /\ lsHistory \in {Absent, Garbage, Json(Arr(<<StoredUser, StoredFar>>))}
     \/ /\ lsSessions \in
             {Absent, EmptyText, Garbage, Json(NotArr("null")),
              Json(NotArr("obj")), Json(Arr(<<>>)),
              Json(Arr(<<StoredSession(-1, StoredTitle, Arr(<<StoredUser>>), 1)>>))}
        /\ lsHistory \in HistoryRecords

NextLoad == Mount \/ Reload \/ Tick

SpecLoad == InitLoad /\ [][NextLoad]_vars


(***************************************************************************)
(* Inputs of the validators                                                *)
(***************************************************************************)
CoordNumbers == {-1801, -1800, -901, -900, 0, 488, 900, 901, 1800, 1801}
FieldVals == {Num(v) : v \in CoordNumbers}
               \cup {NaN, PosInf, NegInf, StrVal, NullVal, Undef}
LocVals == {Loc(a, b) : a \in FieldVals, b \in FieldVals}
             \cup {NoLoc, NullLoc, PrimLoc}

InitValidate ==
  /\ AppOff
  /\ fnIn \in LocVals
  /\ fnOut = [app |-> FALSE, map |-> FALSE]
  /\ fnDone = FALSE

\* both validators applied to the same value
Validate ==
  /\ ~fnDone
  /\ fnOut' = [app |-> isValidStoredLoc(fnIn), map |-> isValidLocation(fnIn)]
  /\ fnDone' = TRUE
  /\ UNCHANGED <<fnIn, storeVars, appVars, mapVars>>

SpecValidate == InitValidate /\ [][Validate]_vars

\* C1: a value is accepted by the validators if and only if it is a record
\* whose lat and lng are finite numbers with -90 <= lat <= 90 and
\* -180 <= lng <= 180.
C1_ValidatorAcceptsIffInRange ==
  fnDone => /\ fnOut.app = ValidGeoLocation(fnIn)
            /\ fnOut.map = ValidGeoLocation(fnIn)

(***************************************************************************)
(* Replies the AI service can give.  A reply text is  pre tag post tag2;   *)
(* each tag piece records whether it is a well-formed hidden tag and the   *)
(* pair it spells, so that the claims can be stated without the regular    *)
(* expression.                                                             *)
(***************************************************************************)
Tag(chars, lat, lng) == [wf |-> TRUE, chars |-> chars, lat |-> lat, lng |-> lng]
NotTag(chars) == [wf |-> FALSE, chars |-> chars, lat |-> 0, lng |-> 0]

TagParis    == Tag(<<"{", "{", "L", "A", "T", ":", "4", "8", ".", "8", ",", " ", "L", "N", "G", ":", "2", ".", "2", "}", "}">>, 488, 22)
TagCorner   == Tag(<<"{", "{", "L", "A", "T", ":", "-", "9", "0", ",", "L", "N", "G", ":", "1", "8", "0", "}", "}">>, -900, 1800)
TagLat91    == Tag(<<"{", "{", "L", "A", "T", ":", "9", "1", ",", "L", "N", "G", ":", "0", "}", "}">>, 910, 0)
TagLng200   == Tag(<<"{", "{", "L", "A", "T", ":", "-", "1", "2", ".", ",", " ", " ", "L", "N", "G", ":", "-", "2", "0", "0", "}", "}">>, -120, -2000)
TagLng1801  == Tag(<<"{", "{", "L", "A", "T", ":", "9", "0", ",", " ", "L", "N", "G", ":", "1", "8", "0", ".", "1", "}", "}">>, 900, 1801)

WellFormedTags == {TagParis, TagCorner, TagLat91, TagLng200, TagLng1801}
MalformedTags ==
  { NotTag(<<"{", "{", "l", "a", "t", ":", "1", ",", " ", "L", "N", "G", ":", "2", "}", "}">>),
    NotTag(<<"{", "{", "L", "A", "T", ":", ".", "5", ",", " ", "L", "N", "G", ":", "2", "}", "}">>),
    NotTag(<<"{", "{", "L", "A", "T", ":", "1", " ", ",", " ", "L", "N", "G", ":", "2", "}", "}">>),
    NotTag(<<"{", "{", "L", "A", "T", ":", "1", ".", "2", ".", "3", ",", " ", "L", "N", "G", ":", "2", "}", "}">>),
    NotTag(<<"{", "{", "L", "A", "T", ":", "1", ",", " ", "L", "N", "G", ":", "2", "}">>),
    NotTag(<<"{", " ", "{", "L", "A", "T", ":", "1", ",", " ", "L", "N", "G", ":", "2", "}", "}">>) }
NoTag == NotTag(<<>>)

Prefixes == { <<>>, <<"G", "o", ".", " ">>, <<" ", "{">> }
Middles  == { <<>>, <<" ">>, <<" ", "o", "k">> }

ReplyShapes ==
  [pre : Prefixes, tag : WellFormedTags \cup MalformedTags \cup {NoTag},
   post : Middles, tag2 : {NoTag, TagParis, TagLat91}]

TextOf(r) == r.pre \o r.tag.chars \o r.post \o r.tag2.chars

\* citations: each records the pair its uri spells first, if any
Cite(chunk, has, lat, lng) ==
  [chunk |-> chunk, has |-> has, lat |-> lat, lng |-> lng]
CiteWeb     == Cite(WebChunk, FALSE, 0, 0)
CiteTokyo   == Cite(PlaceChunk(Uri(<<"m", "/", "@", "1", "!", "3", "d", "3", "5", ".", "6", "!", "4", "d", "1", "3", "9", ".", "6", "!", "x">>)), TRUE, 356, 1396)
CiteTwo     == Cite(PlaceChunk(Uri(<<"!", "3", "d", "-", "1", ".", "5", "!", "4", "d", "2", "!", "3", "d", "3", "!", "4", "d", "4">>)), TRUE, -15, 20)
CiteFar     == Cite(PlaceChunk(Uri(<<"!", "3", "d", "9", "5", "!", "4", "d", "2", "0", "0">>)), TRUE, 950, 2000)
CitePlain   == Cite(PlaceChunk(Uri(<<"m", "/", "p", "l", "a", "c", "e", "!", "3", "d", "!", "4", "d", "1">>)), FALSE, 0, 0)
CiteNoUri   == Cite(PlaceChunk(NoUri), FALSE, 0, 0)
Citations == {CiteWeb, CiteTokyo, CiteTwo, CiteFar, CitePlain, CiteNoUri}

MaxCitations == 2

CitationLists == SeqsUpTo(Citations, MaxCitations)

ChunksOf(cites) == [i \in 1..Len(cites) |-> cites[i].chunk]

InitParse ==
  /\ AppOff
  /\ \/ fnIn \in [shape : ReplyShapes, cites : {<<CiteTokyo>>}, chunks : {TRUE}]
     \/ fnIn \in [shape : {[pre |-> <<>>, tag |-> TagParis, post |-> <<>>,
                            tag2 |-> NoTag]},
                  cites : CitationLists, chunks : BOOLEAN]
  /\ fnIn.chunks \/ fnIn.cites = <<>>
  /\ fnOut = ParseReply(<<>>, NoChunks)
  /\ fnDone = FALSE

\* the parser applied to the reply
Parse ==
  /\ ~fnDone
  /\ fnOut' = ParseReply(TextOf(fnIn.shape),
                         IF fnIn.chunks THEN Chunks(ChunksOf(fnIn.cites))
                         ELSE NoChunks)
  /\ fnDone' = TRUE
  /\ UNCHANGED <<fnIn, storeVars, appVars, mapVars>>

SpecParse == InitParse /\ [][Parse]_vars

\* the first well-formed tag of a reply shape
FirstTag(r) == IF r.tag.wf THEN r.tag ELSE r.tag2
\* the reply shape with its first well-formed tag taken out
WithoutFirstTag(r) ==
  IF r.tag.wf THEN r.pre \o r.post \o r.tag2.chars
  ELSE r.pre \o r.tag.chars \o r.post

\* C4: with a tag in the text, cleanText is the text less its first tag,
\* trimmed, and suggestedLocation is the first tag's pair exactly when the
\* pair is a valid GeoLocation; with no tag, cleanText is the text parsed
\* (the stand-in answer when the reply is empty) and suggestedLocation is
\* absent.
C4_ParseTag ==
  fnDone =>
    LET r == fnIn.shape
        t == FirstTag(r)
    IN  IF t.wf
        THEN /\ fnOut.text = Trim(WithoutFirstTag(r))
             /\ fnOut.suggestedLocation =
                  IF ValidGeoLocation(Loc(Num(t.lat), Num(t.lng)))
                  THEN Loc(Num(t.lat), Num(t.lng)) ELSE NoLoc
        ELSE /\ fnOut.text = ReplyText(TextOf(r))
             /\ fnOut.suggestedLocation = NoLoc

\* the pairs the claim expects of a citation list
RECURSIVE ValidPairs(_)
ValidPairs(cites) ==
  IF cites = <<>> THEN <<>>
  ELSE LET c == Head(cites)
           l == Loc(Num(c.lat), Num(c.lng))
       IN  (IF c.has /\ ValidGeoLocation(l) THEN <<l>> ELSE <<>>)
             \o ValidPairs(Tail(cites))

\* C5: the related locations are the valid pairs of the Place citations,
\* first pair of each uri, in citation order, and absent when there is none.
C5_RelatedLocations ==
  fnDone =>
    fnOut.relatedLocations =
      IF ValidPairs(fnIn.cites) = <<>> THEN NoRel
      ELSE RelArr(ValidPairs(fnIn.cites))

(***************************************************************************)
(* App.tsx: the handlers                                                   *)
(***************************************************************************)

\* the renders and effects that follow a handler.  base: the sessions the
\* handler leaves; set: whether it called setSessions; ms, cur, sidebar: the
\* messages, currentSessionId and isSidebarOpen it leaves.  The sidebar,
\* when open, sorts the sessions in every render; the sync effect runs when
\* messages or currentSessionId changed and sets the sessions unless the
\* id is null; the save effect runs after every render whose sessions
\* changed.
Commit(base, set, ms, cur, sidebar) ==
  /\ messages' = ms
  /\ currentSessionId' = cur
  /\ isSidebarOpen' = sidebar
  /\ sessions' =
       IF (ms # messages \/ cur # currentSessionId) /\ cur # 0
       THEN Render(SyncEffect(Render(base, sidebar), ms, cur, clock), sidebar)
       ELSE Render(base, sidebar)
  /\ lsSessions' =
       IF (ms # messages \/ cur # currentSessionId) /\ cur # 0
       THEN SaveEffect(IF set THEN SaveEffect(lsSessions, Render(base, sidebar))
                       ELSE lsSessions, sessions')
       ELSE IF set THEN SaveEffect(lsSessions, sessions') ELSE lsSessions
  /\ wroteEmpty' =
       (wroteEmpty
          \/ (set /\ EmptyWrite(Render(base, sidebar)))
          \/ ((ms # messages \/ cur # currentSessionId) /\ cur # 0
                /\ EmptyWrite(sessions')))

\* createNewSession with setSessions([newSession]) in place of line 150
CreateNewSession_Replace(prev, fresh) ==
  /\ Commit(<<fresh>>, TRUE, fresh.messages, fresh.id, FALSE)
  /\ targetLocation' = NullLoc
  /\ nextUuid' = nextUuid + 1

\* lines 137-155, on the sessions prev that setSessions(prev => ...) meets
CreateNewSession(prev, fresh) ==
  /\ Commit(<<fresh>> \o prev, TRUE, fresh.messages, fresh.id, FALSE)
  /\ targetLocation' = NullLoc
  /\ nextUuid' = nextUuid + 1

\* the New Chat button
createNewSession ==
  /\ phase = "run"
  /\ nextUuid <= MaxUuid
  /\ Len(sessions) < MaxSessions
  /\ CreateNewSession(sessions, NewSession(nextUuid, clock))
  /\ UNCHANGED <<fnVars, mapVars, lsHistory, phase, loaded, userLocation, isLoading,
                 requests, clock>>

\* line 308: the Chat History button
toggleSidebar ==
  /\ phase = "run"
  /\ isSidebarOpen' = ~isSidebarOpen
  /\ sessions' = Render(sessions, isSidebarOpen')
  /\ UNCHANGED <<fnVars, mapVars, storeVars, phase, loaded, currentSessionId, messages,
                 userLocation, targetLocation, isLoading, requests, clock,
                 nextUuid>>

\* lines 159-172 once the session is found
SwitchTo(base, set, sessionId, ld) ==
  IF ld.found
  THEN /\ Commit(base, set, ld.messages, sessionId, FALSE)
       /\ targetLocation' = ld.target
  ELSE /\ Commit(base, set, messages, currentSessionId, isSidebarOpen)
       /\ UNCHANGED targetLocation

\* lines 157-173, from an item of the sidebar
loadSession ==
  /\ phase = "run"
  /\ isSidebarOpen
  /\ \E i \in 1..Len(sessions) :
       SwitchTo(sessions, FALSE, sessions[i].id,
                LoadSession(sessions, sessions[i].id))
  /\ UNCHANGED <<fnVars, mapVars, lsHistory, phase, loaded, userLocation, isLoading,
                 requests, clock, nextUuid>>

\* sessions.filter(s => s.id !== sessionId)
Without(ss, sessionId) ==
  LET Keep(s) == s.id # sessionId IN SelectSeq(ss, Keep)

\* the confirmed delete without lines 181-187: the active id is left alone
Deleted_NoSwitch(sessionId, newSessions) ==
  /\ Commit(newSessions, TRUE, messages, currentSessionId, isSidebarOpen)
  /\ UNCHANGED <<targetLocation, nextUuid>>

\* lines 178-188, the confirmed delete
Deleted(sessionId, newSessions) ==
  IF sessionId = currentSessionId
  THEN IF Len(newSessions) > 0
       THEN /\ SwitchTo(newSessions, TRUE, newSessions[1].id,
                        LoadSession(sessions, newSessions[1].id))
            /\ UNCHANGED nextUuid
       ELSE CreateNewSession(newSessions, NewSession(nextUuid, clock))
  ELSE /\ Commit(newSessions, TRUE, messages, currentSessionId, isSidebarOpen)
       /\ UNCHANGED <<targetLocation, nextUuid>>

\* lines 175-190, from an item of the sidebar; confirm: the answer to
\* window.confirm
deleteSession ==
  /\ phase = "run"
  /\ isSidebarOpen
  /\ nextUuid <= MaxUuid
  /\ \E i \in 1..Len(sessions), confirm \in BOOLEAN :
       IF confirm
       THEN Deleted(sessions[i].id, Without(sessions, sessions[i].id))
       ELSE UNCHANGED <<sessions, currentSessionId, messages, isSidebarOpen,
                        lsSessions, wroteEmpty, targetLocation, nextUuid>>
  /\ UNCHANGED <<fnVars, mapVars, lsHistory, phase, loaded, userLocation, isLoading,
                 requests, clock>>

HistoryWindow == 10

\* the history cut at the other end: chatHistory.slice(0, 10)
HistoryContext_Oldest(chatHistory) ==
  LET n == IF Len(chatHistory) > HistoryWindow THEN HistoryWindow
           ELSE Len(chatHistory)
  IN  [i \in 1..n |-> [role |-> chatHistory[i].role,
                       text |-> chatHistory[i].text]]

\* gemini.ts lines 26-31: chatHistory.slice(-10).map(...), role and text of
\* the last ten messages
HistoryContext(chatHistory) ==
  LET n == Len(chatHistory)
      from == IF n > HistoryWindow THEN n - HistoryWindow + 1 ELSE 1
  IN  [i \in 1..(n - from + 1) |->
         [role |-> chatHistory[from + i - 1].role,
          text |-> chatHistory[from + i - 1].text]]

\* the choice of line 256 the other way round
ContextLocation_UserFirst ==
  IF TruthyLoc(userLocation) THEN userLocation ELSE targetLocation

\* line 256: targetLocation || userLocation
ContextLocation == IF TruthyLoc(targetLocation) THEN targetLocation ELSE userLocation

\* isNaN(x), which converts x to a number first
GlobalIsNaN(f) == f.k \in {"nan", "undef", "str"}

\* gemini.ts lines 53-68: the latLng of the retrievalConfig sent with the
\* call, undefined when the location given does not pass line 53
RetrievalLatLng(loc) ==
  IF TruthyLoc(loc) /\ ~GlobalIsNaN(loc.lat) /\ ~GlobalIsNaN(loc.lng)
  THEN loc ELSE NoLoc

\* lines 235-258: the accepted send up to the await
Sent(userMsg) ==
  /\ Commit(sessions, FALSE, Append(messages, userMsg), currentSessionId,
            isSidebarOpen)
  /\ isLoading' = TRUE
  /\ requests' = Append(requests,
                        Request(HistoryContext(Append(messages, userMsg)),
                                ContextLocation))
  /\ nextUuid' = nextUuid + 1

UserTexts == { <<" ", "h", "i", " ">>, <<" ", " ">> }

\* the test of line 233 without isLoading
Rejects_BlankOnly(textToSend) == Trim(textToSend) = <<>>

\* line 233: the send returns at once
Rejects(textToSend) == Trim(textToSend) = <<>> \/ isLoading

\* lines 229-258: handleSendMessage up to the await
handleSendMessage ==
  /\ phase = "run"
  /\ nextUuid < MaxUuid
  /\ \E textToSend \in UserTexts :
       IF Rejects(textToSend)
       THEN UNCHANGED <<sessions, currentSessionId, messages, isSidebarOpen,
                        lsSessions, wroteEmpty, isLoading, requests, nextUuid>>
       ELSE Sent(Msg(nextUuid, "user", Trim(textToSend), clock, NoChunks,
                     NoLoc, NoRel))
  /\ UNCHANGED <<fnVars, mapVars, lsHistory, phase, loaded, userLocation,
                 targetLocation, clock>>

\* the calls outstanding once call i has returned
Returned(i) == SubSeq(requests, 1, i - 1) \o SubSeq(requests, i + 1, Len(requests))

\* lines 260-264 and 273: the reply of call i is appended
Replied(i, response) ==
  /\ Commit(sessions, FALSE, Append(messages, response), currentSessionId,
            isSidebarOpen)
  /\ targetLocation' =
       IF TruthyLoc(response.suggestedLocation)
            /\ isValidStoredLoc(response.suggestedLocation)
       THEN response.suggestedLocation ELSE targetLocation
  /\ isLoading' = FALSE
  /\ requests' = Returned(i)
  /\ nextUuid' = nextUuid + 1

\* gemini.ts lines 123-131: the message sendMessageToGemini returns
ResponseMessage(parsed, uuid, now) ==
  Msg(uuid, "model", parsed.text, now, parsed.groundingChunks,
      parsed.suggestedLocation, parsed.relatedLocations)

\* what the AI service answers in this model
Replies ==
  { [shape |-> [pre |-> TextOk, tag |-> NoTag, post |-> <<>>, tag2 |-> NoTag],
     cites |-> <<>>, chunks |-> FALSE],
    [shape |-> [pre |-> <<"G", "o", ".", " ">>, tag |-> TagParis, post |-> <<>>,
                tag2 |-> NoTag],
     cites |-> <<CiteTokyo, CiteWeb>>, chunks |-> TRUE],
    [shape |-> [pre |-> <<>>, tag |-> TagLat91, post |-> <<" ", "o", "k">>,
                tag2 |-> NoTag],
     cites |-> <<CiteFar>>, chunks |-> TRUE] }

\* lines 258-264, 272-274: the AI service answered
replySuccess ==
  /\ phase = "run"
  /\ \E i \in 1..Len(requests), r \in Replies :
       Replied(i, ResponseMessage(
                    ParseReply(TextOf(r.shape),
                               IF r.chunks THEN Chunks(ChunksOf(r.cites))
                               ELSE NoChunks),
                    nextUuid, clock))
  /\ UNCHANGED <<fnVars, mapVars, lsHistory, phase, loaded, userLocation, clock>>

\* the failure without the finally block of lines 272-274
replyFailure_NoFinally ==
  /\ phase = "run"
  /\ \E i \in 1..Len(requests) : requests' = Returned(i)
  /\ Commit(sessions, FALSE,
            Append(messages, Msg(nextUuid, "model", ApologyText, clock,
                                 NoChunks, NoLoc, NoRel)),
            currentSessionId, isSidebarOpen)
  /\ isLoading' = isLoading
  /\ nextUuid' = nextUuid + 1
  /\ UNCHANGED <<fnVars, mapVars, lsHistory, phase, loaded, userLocation,
                 targetLocation, clock>>

\* lines 265-274: the AI service failed (gemini.ts lines 133-136 rethrow)
replyFailure ==
  /\ phase = "run"
  /\ \E i \in 1..Len(requests) : requests' = Returned(i)
  /\ Commit(sessions, FALSE,
            Append(messages, Msg(nextUuid, "model", ApologyText, clock,
                                 NoChunks, NoLoc, NoRel)),
            currentSessionId, isSidebarOpen)
  /\ isLoading' = FALSE
  /\ nextUuid' = nextUuid + 1
  /\ UNCHANGED <<fnVars, mapVars, lsHistory, phase, loaded, userLocation,
                 targetLocation, clock>>

\* what a click on the map reports: Leaflet gives numbers, a longitude
\* past +/-180 when the map has been dragged across the antimeridian
Clicks ==
  { Loc(Num(356), Num(1396)), Loc(Num(100), Num(2000)),
    Loc(NaN, NaN) }

\* MapComponent lines 99-103 and App.tsx lines 284-287: a click on the map
handleManualLocationSelect ==
  /\ phase = "run"
  /\ \E picked \in Clicks :
       targetLocation' =
         IF TypeofNumber(picked.lat) /\ ~IsNaN(picked.lat)
              /\ TypeofNumber(picked.lng) /\ ~IsNaN(picked.lng)
         THEN picked ELSE targetLocation
  /\ UNCHANGED <<fnVars, mapVars, storeVars, phase, loaded, sessions, currentSessionId,
                 messages, userLocation, isLoading, isSidebarOpen, requests,
                 clock, nextUuid>>

\* lines 222-225: the relatedLocations handed to the map, those of the
\* last model message
RelatedLocations(ms) ==
  IF \E i \in 1..Len(ms) : ms[i].role = "model"
  THEN ms[CHOOSE i \in 1..Len(ms) :
            /\ ms[i].role = "model"
            /\ \A j \in (i + 1)..Len(ms) : ms[j].role # "model"].relatedLocations
  ELSE NoRel

\* lines 289-291
handleClearTarget ==
  /\ phase = "run"
  /\ targetLocation' = NullLoc
  /\ UNCHANGED <<fnVars, mapVars, storeVars, phase, loaded, sessions, currentSessionId,
                 messages, userLocation, isLoading, isSidebarOpen, requests,
                 clock, nextUuid>>

\* lines 194-206: the browser reports the position, once
geolocationSuccess ==
  /\ phase = "run"
  /\ userLocation = NullLoc
  /\ userLocation' = Loc(Num(515), Num(-1))
  /\ UNCHANGED <<fnVars, mapVars, storeVars, phase, loaded, sessions, currentSessionId,
                 messages, targetLocation, isLoading, isSidebarOpen, requests,
                 clock, nextUuid>>

\* a stored conversation longer than the history window
LongConversation ==
  [i \in 1..(HistoryWindow + 1) |->
     Msg(-10 - i, IF i % 2 = 1 THEN "user" ELSE "model",
         IF i % 2 = 1 THEN TextHi ELSE TextOk, 1, NoChunks, NoLoc, NoRel)]

Init ==
  /\ FnOff
  /\ Unmounted("boot")
  /\ wroteEmpty = FALSE
  /\ clock = 3
  /\ nextUuid = 1
  /\ \/ lsSessions = Absent /\ lsHistory = Absent
     \/ /\ lsSessions =
             Json(Arr(<<StoredSession(-1, NewChatTitle,
                                      Arr(<<StoredUser, StoredFar>>), 1),
                        StoredSession(-2, StoredTitle,
                                      Arr(<<StoredGood>>), 2)>>))
        /\ lsHistory = Absent
     \/ /\ lsSessions = Absent
        /\ lsHistory = Json(Arr(<<StoredUser, StoredFar>>))
     \/ /\ lsSessions =
             Json(Arr(<<StoredSession(-3, StoredTitle, Arr(LongConversation),
                                      1)>>))
        /\ lsHistory = Absent

Next ==
  \/ Mount
  \/ Reload
  \/ Tick
  \/ createNewSession
  \/ toggleSidebar
  \/ loadSession
  \/ deleteSession
  \/ handleSendMessage
  \/ replySuccess
  \/ replyFailure
  \/ handleManualLocationSelect
  \/ handleClearTarget
  \/ geolocationSuccess

Spec == Init /\ [][Next]_vars

\* a user message longer than a title
TextLong ==
  <<"W", "h", "e", "r", "e", " ", "c", "a", "n", " ", "I", " ", "f", "i", "n",
    "d", " ", "a", " ", "g", "o", "o", "d", " ", "c", "a", "f", "e", " ", "n",
    "e", "a", "r", " ", "t", "h", "e", " ", "r", "i", "v", "e", "r", "?">>
StoredLongUser == Msg(-4, "user", TextLong, 1, NoChunks, NoLoc, NoRel)

\* the application over a store of three sessions: one still untitled, two
\* titled, two of them of the same age
InitSessions ==
  /\ FnOff
  /\ Unmounted("boot")
  /\ wroteEmpty = FALSE
  /\ clock = 3
  /\ nextUuid = 1
  /\ lsSessions =
       Json(Arr(<<StoredSession(-1, NewChatTitle,
                                Arr(<<StoredLongUser, StoredFar>>), 1),
                  StoredSession(-2, StoredTitle, Arr(<<StoredGood>>), 2),
                  StoredSession(-3, StoredTitle, Arr(LongConversation), 1)>>))
  /\ lsHistory = Absent

\* the handlers of the sessions and of the conversation; the map's own
\* handlers, which touch neither, are left to Spec
NextSessions ==
  \/ Mount
  \/ Reload
  \/ Tick
  \/ createNewSession
  \/ toggleSidebar
  \/ loadSession
  \/ deleteSession
  \/ handleSendMessage
  \/ replySuccess
  \/ replyFailure

SpecSessions == InitSessions /\ [][NextSessions]_vars

(***************************************************************************)
(* The application: the locations it holds                                 *)
(***************************************************************************)

\* a location field is absent or a valid GeoLocation
AbsentOrValid(loc) == loc.k \in {"undef", "null"} \/ ValidGeoLocation(loc)

\* the locations of one message are valid GeoLocations
MessageLocationsValid(m) ==
  /\ AbsentOrValid(m.suggestedLocation)
  /\ m.relatedLocations.k = "arr" =>
       \A j \in 1..Len(m.relatedLocations.items) :
         ValidGeoLocation(m.relatedLocations.items[j])

AllLocationsValid ==
  /\ \A j \in 1..Len(messages) : MessageLocationsValid(messages[j])
  /\ \A i \in 1..Len(sessions) : \A j \in 1..Len(sessions[i].messages) :
       MessageLocationsValid(sessions[i].messages[j])

\* C2: in every reachable state every suggestedLocation and every element
\* of relatedLocations of every message, of the active conversation and of
\* every session, is a valid GeoLocation (finite, lat in [-90,90], lng in
\* [-180,180]); and the model message a reply appends carries no location
\* that is not.
C2_LocationsAlwaysValid ==
  /\ [](phase = "run" => AllLocationsValid)
  /\ [][replySuccess => MessageLocationsValid(messages'[Len(messages')])]_vars

\* C3: a map click replaces targetLocation only by a pair that is a valid
\* GeoLocation and otherwise leaves it unchanged, so that targetLocation is
\* always absent or a valid GeoLocation.
C3_TargetAlwaysValid ==
  /\ [](targetLocation = NullLoc \/ ValidGeoLocation(targetLocation))
  /\ [][handleManualLocationSelect =>
          (targetLocation' = targetLocation
             \/ ValidGeoLocation(targetLocation'))]_vars

(***************************************************************************)
(* The session store: what a stored record is expected to load as          *)
(***************************************************************************)

\* the record holds an array
IsArray(rec) == rec.k = "json" /\ rec.val.k = "arr"

\* a stored message the sanitization can work on
WellFormedMessage(m) ==
  m.k = "obj" /\ m.relatedLocations.k \in {"undef", "null", "arr"}
\* a stored session the sanitization can work on
WellFormedSession(s) ==
  /\ s.k = "obj"
  /\ s.messages.k = "arr"
  /\ \A j \in 1..Len(s.messages.items) : WellFormedMessage(s.messages.items[j])

\* message o is message m with its locations filtered by the validator V
\* and nothing else changed
Sanitized(V(_), m, o) ==
  /\ o.suggestedLocation =
       IF V(m.suggestedLocation) THEN m.suggestedLocation ELSE NoLoc
  /\ o.relatedLocations =
       IF m.relatedLocations.k = "arr"
       THEN RelArr(SelectSeq(m.relatedLocations.items, V)) ELSE NoRel
  /\ o.k = m.k /\ o.id = m.id /\ o.role = m.role /\ o.text = m.text
  /\ o.timestamp = m.timestamp /\ o.groundingChunks = m.groundingChunks

SanitizedList(V(_), ms, os) ==
  /\ Len(os) = Len(ms)
  /\ \A j \in 1..Len(ms) : Sanitized(V, ms[j], os[j])

\* the load at the last mount took the multi-session record, all of whose
\* sessions are well formed
LoadedStored ==
  /\ phase = "run"
  /\ IsArray(loaded.saved)
  /\ \A i \in 1..Len(loaded.saved.val.items) :
       WellFormedSession(loaded.saved.val.items[i])

\* the load at the last mount migrated the legacy record, all of whose
\* messages are well formed
LoadedLegacy ==
  /\ phase = "run"
  /\ loaded.result.migrated
  /\ \A j \in 1..Len(lsHistory.val.items) :
       WellFormedMessage(lsHistory.val.items[j])

\* the sessions loaded are the sessions stored, locations filtered by V
StoredSanitizedBy(V(_)) ==
  LET in  == loaded.saved.val.items
      out == loaded.result.sessions
  IN  /\ Len(out) = Len(in)
      /\ \A i \in 1..Len(in) :
           /\ out[i].id = in[i].id
           /\ out[i].title = in[i].title
           /\ out[i].updatedAt = in[i].updatedAt
           /\ SanitizedList(V, in[i].messages.items, out[i].messages)

\* the collection loaded is one session holding the legacy messages,
\* locations filtered by V
LegacySanitizedBy(V(_)) ==
  LET out == loaded.result.sessions
  IN  /\ Len(out) = 1
      /\ out[1].title = RestoredTitle
      /\ out[1].id = loaded.uuid
      /\ out[1].updatedAt = loaded.now
      /\ SanitizedList(V, lsHistory.val.items, out[1].messages)

\* C6: sanitization of a loaded or migrated collection keeps a
\* suggestedLocation that is a valid GeoLocation and drops any other, keeps
\* exactly the valid elements of relatedLocations in order, and changes no
\* other field of a message or session.
C6_SanitizeOnlyLocations ==
  /\ LoadedStored => StoredSanitizedBy(ValidGeoLocation)
  /\ LoadedLegacy => LegacySanitizedBy(ValidGeoLocation)

\* C7: sanitization is idempotent, so that what a load returns is returned
\* again when it is saved and loaded, and the collection in memory after a
\* mount is the collection a load of the saved record returns.
C7_SanitizeIdempotent ==
  (phase = "run" /\ currentSessionId # 0) =>
    /\ LoadSessions(Stringify(loaded.result.sessions), Absent, 0, 0).sessions
         = loaded.result.sessions
    /\ LoadSessions(lsSessions, lsHistory, 0, 0).sessions = sessions

\* a load that sanitization changed: a stored suggestedLocation was dropped
C7_Witness ==
  /\ phase = "run" /\ currentSessionId # 0
  /\ IsArray(loaded.saved)
  /\ Len(loaded.result.sessions) = 1
  /\ \E j \in 1..Len(sessions[1].messages) :
       /\ loaded.saved.val.items[1].messages.items[j].suggestedLocation.k = "obj"
       /\ sessions[1].messages[j].suggestedLocation = NoLoc

\* C8: a multi-session record that is an array is loaded (sanitized) and the
\* legacy record is not read; the legacy record is migrated only when the
\* multi-session record is absent or not an array and the legacy record is
\* a non-empty array; with neither record the load returns no session.
C8_LoadPrecedence ==
  phase = "run" =>
    /\ IsArray(loaded.saved) =>
         /\ ~loaded.result.legacy
         /\ LoadedStored =>
              /\ Len(loaded.result.sessions) = Len(loaded.saved.val.items)
              /\ \A i \in 1..Len(loaded.result.sessions) :
                   Ok(loaded.result.sessions[i])
                     = SanitizeSession(loaded.saved.val.items[i])
    /\ loaded.result.migrated =>
         /\ ~IsArray(loaded.saved)
         /\ IsArray(lsHistory) /\ Len(lsHistory.val.items) > 0
    /\ (loaded.saved = Absent /\ lsHistory = Absent) =>
         loaded.result.sessions = <<>>

\* both records hold sessions and the multi-session record wins
C8_Witness ==
  /\ phase = "run"
  /\ LoadedStored /\ Len(loaded.result.sessions) = 2
  /\ IsArray(lsHistory) /\ Len(lsHistory.val.items) > 0
  /\ ~loaded.result.migrated

\* a stored message the sanitization cannot read: null, or one whose
\* relatedLocations is neither absent nor an array
BrokenMessage(m) ==
  m.k = "null" \/ m.relatedLocations.k \notin {"undef", "null", "arr"}
\* a stored session the sanitization cannot read: not an object, without a
\* message list, or with a broken message
BrokenSession(s) ==
  \/ s.k # "obj"
  \/ s.messages.k # "arr"
  \/ \E j \in 1..Len(s.messages.items) : BrokenMessage(s.messages.items[j])

\* the load at the last mount met text that does not parse or a value the
\* sanitization cannot read
ParseFailure ==
  \/ loaded.saved = Garbage
  \/ /\ IsArray(loaded.saved)
     /\ \E i \in 1..Len(loaded.saved.val.items) :
          BrokenSession(loaded.saved.val.items[i])
  \/ /\ loaded.saved.k # "garbage" /\ ~IsArray(loaded.saved)
     /\ \/ lsHistory = Garbage
        \/ /\ IsArray(lsHistory)
           /\ \E j \in 1..Len(lsHistory.val.items) :
                BrokenMessage(lsHistory.val.items[j])

\* C9: whatever the two records hold the load does not fail; a parse
\* failure gives the empty collection, and the mount then leaves exactly
\* one session, fresh and active.
C9_LoadNeverFails ==
  /\ phase # "crashed"
  /\ phase = "run" =>
       /\ ParseFailure => loaded.result.sessions = <<>>
       /\ loaded.result.sessions = <<>> =>
            /\ Len(sessions) = 1
            /\ currentSessionId = sessions[1].id
            /\ currentSessionId = loaded.uuid
            /\ sessions[1].title = NewChatTitle
            /\ messages = sessions[1].messages
            /\ Len(messages) = 1 /\ messages[1].text = WelcomeText

\* a malformed stored session made the load fall back
C9_Witness ==
  /\ phase = "run"
  /\ ParseFailure
  /\ IsArray(loaded.saved)
  /\ \E i \in 1..Len(loaded.saved.val.items) :
       loaded.saved.val.items[i].k = "obj"
         /\ loaded.saved.val.items[i].messages.k # "arr"
  /\ Len(sessions) = 1

\* C10: a migrated legacy record gives one fresh session titled as a
\* restored conversation, holding the legacy messages in order with every
\* invalid suggestedLocation absent, invalid relatedLocations elements
\* dropped and all else intact; and nothing ever writes the legacy record.
C10_Migration ==
  /\ [](LoadedLegacy => LegacySanitizedBy(ValidGeoLocation))
  /\ [][lsHistory' = lsHistory]_vars

(***************************************************************************)
(* The application: saving and sending                                     *)
(***************************************************************************)

\* C11: no write to the multi-session record carries an empty collection:
\* no setItem is ever reached with no session, and once the application
\* runs the record holds an array of at least one session, whatever was
\* loaded, created, switched to, deleted or sent.
C11_SaveNeverWritesEmpty ==
  /\ ~wroteEmpty
  /\ phase = "run" => IsArray(lsSessions) /\ Len(lsSessions.val.items) > 0

\* nothing was stored at startup, and the session made then has been
\* deleted and replaced
C11_Witness ==
  /\ phase = "run"
  /\ loaded.result.sessions = <<>>
  /\ Len(sessions) = 1
  /\ sessions[1].id # loaded.uuid
  /\ lsSessions = Stringify(sessions)

AcceptedSend == handleSendMessage /\ Len(requests') = Len(requests) + 1

\* the call the step issued
NewRequest == requests'[Len(requests')]

\* the last min(n, HistoryWindow) of the messages ms, oldest first, each by
\* its role and text
RecentRoleText(ms) ==
  LET n == Len(ms)
      k == IF n < HistoryWindow THEN n ELSE HistoryWindow
  IN  [i \in 1..k |-> [role |-> ms[n - k + i].role, text |-> ms[n - k + i].text]]

\* C13: the history an accepted send passes to the AI service is the last
\* min(10, n) messages of the conversation as it is once the user message
\* is appended, oldest first, each by its role and text; its last entry is
\* the new user message.
C13_HistoryWindow ==
  [][AcceptedSend =>
       /\ NewRequest.history = RecentRoleText(messages')
       /\ messages' = Append(messages, messages'[Len(messages')])
       /\ NewRequest.history[Len(NewRequest.history)]
            = [role |-> "user", text |-> messages'[Len(messages')].text]
       /\ messages'[Len(messages')].role = "user"]_vars

\* a call went out from a conversation longer than the window
C13_Witness ==
  /\ phase = "run"
  /\ Len(requests) = 1
  /\ Len(messages) > HistoryWindow
  /\ Len(requests[1].history) = HistoryWindow
  /\ messages[Len(messages)].role = "user"

\* C14: the context location an accepted send passes to the AI service is
\* targetLocation if it is set, else userLocation if it is set, else
\* absent, as they are when the send is invoked.
C14_ContextLocation ==
  [][AcceptedSend =>
       RetrievalLatLng(NewRequest.contextLocation) =
         IF targetLocation # NullLoc THEN targetLocation
         ELSE IF userLocation # NullLoc THEN userLocation
         ELSE NoLoc]_vars

\* a call went out with the target although the user's position was known
C14_Witness ==
  /\ phase = "run"
  /\ Len(requests) = 1
  /\ userLocation # NullLoc
  /\ requests[1].contextLocation # userLocation
  /\ requests[1].contextLocation.k = "obj"

\* message m is the model message the claims expect of the reply r: the
\* text less its first tag, the citations, and the locations that are
\* valid GeoLocations
ReplyMessageOf(r, m) ==
  LET t   == FirstTag(r.shape)
      loc == Loc(Num(t.lat), Num(t.lng))
  IN  /\ m.role = "model"
      /\ m.text = IF t.wf THEN Trim(WithoutFirstTag(r.shape))
                  ELSE ReplyText(TextOf(r.shape))
      /\ m.groundingChunks =
           IF r.chunks THEN Chunks(ChunksOf(r.cites)) ELSE NoChunks
      /\ m.suggestedLocation =
           IF t.wf /\ ValidGeoLocation(loc) THEN loc ELSE NoLoc
      /\ m.relatedLocations =
           IF ValidPairs(r.cites) = <<>> THEN NoRel
           ELSE RelArr(ValidPairs(r.cites))

\* the conversation on display ends with the user message of call i
EndsWithSendOf(i) ==
  /\ messages # <<>>
  /\ messages[Len(messages)].role = "user"
  /\ HistoryContext(messages) = requests[i].history

\* C15: when the AI call of a send succeeds, the conversation, which ends
\* with the send's user message, grows by one model message built from the
\* parsed reply (clean text, citations, valid locations), and
\* targetLocation becomes the reply's suggestedLocation if that is a valid
\* GeoLocation and is otherwise what it was.
C15_ReplyAppended ==
  [][replySuccess =>
       /\ \E i \in 1..Len(requests) :
            requests' = Returned(i) /\ EndsWithSendOf(i)
       /\ messages' = Append(messages, messages'[Len(messages')])
       /\ \E r \in Replies : ReplyMessageOf(r, messages'[Len(messages')])
       /\ targetLocation' =
            IF ValidGeoLocation(messages'[Len(messages')].suggestedLocation)
            THEN messages'[Len(messages')].suggestedLocation
            ELSE targetLocation]_vars

\* C16: when the AI call of a send fails, one model message with the fixed
\* apology text and no location is appended, and the map state is what it
\* was: userLocation, targetLocation and the related locations handed to
\* the map.
C16_FailureApology ==
  [][replyFailure =>
       /\ messages' = Append(messages, messages'[Len(messages')])
       /\ messages'[Len(messages')].role = "model"
       /\ messages'[Len(messages')].text = ApologyText
       /\ messages'[Len(messages')].suggestedLocation = NoLoc
       /\ messages'[Len(messages')].relatedLocations = NoRel
       /\ userLocation' = userLocation
       /\ targetLocation' = targetLocation
       /\ RelatedLocations(messages') = RelatedLocations(messages)]_vars

(***************************************************************************)
(* The application: switching, creating and deleting sessions              *)
(***************************************************************************)

\* the suggestedLocation of the newest message of ms whose suggestedLocation
\* is a valid GeoLocation, null when there is none
NewestValid(ms) ==
  IF \E i \in 1..Len(ms) : ValidGeoLocation(ms[i].suggestedLocation)
  THEN ms[CHOOSE i \in 1..Len(ms) :
            /\ ValidGeoLocation(ms[i].suggestedLocation)
            /\ \A j \in (i + 1)..Len(ms) :
                 ~ValidGeoLocation(ms[j].suggestedLocation)].suggestedLocation
  ELSE NullLoc

\* C17: after a switch to a session of the collection the conversation on
\* display is that session's messages, and targetLocation is the
\* suggestedLocation of the newest message that has a valid one (lat in
\* [-90,90], lng in [-180,180], both finite), absent when no message has.
C17_SwitchRestoresTarget ==
  [][loadSession =>
       \E i \in 1..Len(sessions) :
         /\ currentSessionId' = sessions[i].id
         /\ messages' = sessions[i].messages
         /\ targetLocation' = NewestValid(sessions[i].messages)]_vars

\* C18: the New Chat button adds exactly one session and leaves every
\* session there was as it was; the new session is the active one, bears
\* the placeholder title and holds the welcome message of the model and
\* nothing else, and targetLocation is absent.
C18_CreateAddsOne ==
  [][createNewSession =>
       /\ Len(sessions') = Len(sessions) + 1
       /\ \A i \in 1..Len(sessions) :
            \E j \in 1..Len(sessions') : sessions'[j] = sessions[i]
       /\ \E j \in 1..Len(sessions') :
            /\ \A i \in 1..Len(sessions) : sessions[i].id # sessions'[j].id
            /\ sessions'[j].id = currentSessionId'
            /\ sessions'[j].title = NewChatTitle
            /\ sessions'[j].messages = messages'
       /\ Len(messages') = 1
       /\ messages'[1].role = "model"
       /\ messages'[1].text = WelcomeText
       /\ targetLocation' = NullLoc]_vars

\* a new chat is on display beside an older conversation that had set the
\* map's target
C18_Witness ==
  /\ phase = "run"
  /\ Len(sessions) = 2
  /\ sessions[1].id = currentSessionId
  /\ sessions[1].title = NewChatTitle
  /\ messages = sessions[1].messages
  /\ Len(messages) = 1
  /\ messages[1].text = WelcomeText
  /\ \E j \in 1..Len(sessions[2].messages) :
       TruthyLoc(sessions[2].messages[j].suggestedLocation)
  /\ targetLocation = NullLoc

\* the ids of the sessions of ss
Ids(ss) == {ss[i].id : i \in 1..Len(ss)}

\* session id is taken out of the collection and, if it was the active
\* one, the most recently updated of the rest, or a new session when none
\* is left, is the active one
DeleteOutcome(id) ==
  LET rest == {i \in 1..Len(sessions) : sessions[i].id # id}
  IN  /\ id \notin Ids(sessions')
      /\ IF id # currentSessionId
         THEN /\ Ids(sessions') = Ids(sessions) \ {id}
              /\ currentSessionId' = currentSessionId
              /\ messages' = messages
         ELSE IF rest # {}
         THEN /\ Ids(sessions') = Ids(sessions) \ {id}
              /\ \E k \in rest :
                   /\ currentSessionId' = sessions[k].id
                   /\ messages' = sessions[k].messages
                   /\ \A l \in rest :
                        sessions[l].updatedAt <= sessions[k].updatedAt
         ELSE /\ Len(sessions') = 1
              /\ sessions'[1].id = currentSessionId'
              /\ sessions'[1].id \notin Ids(sessions)
              /\ sessions'[1].messages = messages'
              /\ Len(messages') = 1
              /\ messages'[1].text = WelcomeText

\* C19: a confirmed delete takes the session out of the collection; if it
\* was the active one, the remaining session with the greatest updatedAt
\* becomes active, or a freshly created one when none remains, so that
\* deleting the only session leaves exactly one; a declined delete changes
\* nothing.
C19_DeleteSwitches ==
  [][deleteSession =>
       \/ UNCHANGED vars
       \/ \E i \in 1..Len(sessions) : DeleteOutcome(sessions[i].id)]_vars

\* two of the three stored sessions are left and the one on display is
\* one that had been opened after the other
C19_Witness ==
  /\ phase = "run"
  /\ ~isSidebarOpen
  /\ Len(sessions) = 2
  /\ \A i \in 1..2 : sessions[i].id < 0
  /\ sessions[1].id = currentSessionId
  /\ sessions[1].id = -1
  /\ sessions[2].id = -2
  /\ sessions[2].updatedAt > 2
  /\ sessions[1].updatedAt > sessions[2].updatedAt
  /\ messages = sessions[1].messages

(***************************************************************************)
(* The application: the titles of the sessions                             *)
(***************************************************************************)

\* a text cut to the length of a title, with an ellipsis when it was longer
TitleFrom(text) ==
  IF Len(text) <= TitleMax THEN text
  ELSE [i \in 1..(TitleMax + 3) |-> IF i <= TitleMax THEN text[i] ELSE "."]

\* the title was (is the placeholder, then) and now (of a session that
\* holds messages ms) are one title, or the title derived once from ms
KeptOrDerived(was, now, ms) ==
  \/ now = was
  \/ /\ was = NewChatTitle
     /\ Len(ms) >= 2
     /\ \E u \in 1..Len(ms) :
          /\ ms[u].role = "user"
          /\ \A v \in 1..(u - 1) : ms[v].role # "user"
          /\ now = TitleFrom(ms[u].text)

\* from one state to the next every session that stays keeps its title or
\* has it derived
TitlesKeptOrDerived ==
  \A i \in 1..Len(sessions) : \A j \in 1..Len(sessions') :
    sessions[i].id = sessions'[j].id =>
      KeptOrDerived(sessions[i].title, sessions'[j].title,
                    sessions'[j].messages)

\* the sessions a load brings back bear the titles that were stored, or
\* have them derived
TitlesKeptOrDerivedByLoad ==
  (phase = "boot" /\ phase' = "run" /\ IsArray(lsSessions)) =>
    \A i \in 1..Len(lsSessions.val.items) : \A j \in 1..Len(sessions') :
      lsSessions.val.items[i].id = sessions'[j].id =>
        KeptOrDerived(lsSessions.val.items[i].title, sessions'[j].title,
                      sessions'[j].messages)

\* the store holds every session of the collection under its title
TitlesStored ==
  \A i \in 1..Len(sessions) :
    /\ IsArray(lsSessions)
    /\ \E j \in 1..Len(lsSessions.val.items) :
         /\ lsSessions.val.items[j].id = sessions[i].id
         /\ lsSessions.val.items[j].title = sessions[i].title

\* a session created by the application bears the placeholder while it
\* holds fewer than two messages
PlaceholderUntilTwo ==
  \A i \in 1..Len(sessions) :
    (sessions[i].id > 0 /\ Len(sessions[i].messages) < 2) =>
      sessions[i].title = NewChatTitle

\* C20: a session's title is the placeholder until the session holds two
\* messages or more; it is then set, once, to the text of the first user
\* message, cut to 30 characters with an ellipsis when the text is longer;
\* a title other than the placeholder is changed by no operation: no send,
\* no reply, no switch away and back, no reload.
C20_TitleDerivedOnce ==
  /\ [](phase = "run" => PlaceholderUntilTwo /\ TitlesStored)
  /\ [][TitlesKeptOrDerived /\ TitlesKeptOrDerivedByLoad]_vars
  /\ [][AcceptedSend =>
          \E j \in 1..Len(sessions') :
            /\ sessions'[j].id = currentSessionId'
            /\ sessions'[j].title # NewChatTitle]_vars

\* a session titled by its long first question has grown since and is no
\* longer the one on display
C20_Witness ==
  /\ phase = "run"
  /\ \E i \in 1..Len(sessions) :
       /\ sessions[i].id # currentSessionId
       /\ Len(sessions[i].title) = TitleMax + 3
       /\ sessions[i].title = TitleFrom(TextLong)
       /\ Len(sessions[i].messages) > 2

(***************************************************************************)
(* The application: the active session                                     *)
(***************************************************************************)

\* the sessions that bear the active id
ActiveSessions == {i \in 1..Len(sessions) : sessions[i].id = currentSessionId}

FitPadding  == 50
FitMaxZoom  == 15
FitDuration == 15
FlyZoom     == 15
FlyDuration == 20

NoOp == [op |-> "NoOp", points |-> <<>>, center |-> NoLoc, zoom |-> 0,
         padding |-> 0, duration |-> 0]
FitBounds(points) ==
  [op |-> "FitBounds", points |-> points, center |-> NoLoc,
   zoom |-> FitMaxZoom, padding |-> FitPadding, duration |-> FitDuration]
FlyTo(center, zoom, duration) ==
  [op |-> "FlyTo", points |-> <<>>, center |-> center, zoom |-> zoom,
   padding |-> 0, duration |-> duration]

\* relatedLocations?.filter(isValidLocation) || []
ValidRelated(relatedLocations) ==
  IF relatedLocations.k = "arr"
  THEN SelectSeq(relatedLocations.items, isValidLocation)
  ELSE <<>>

\* Leaflet: L.latLngBounds(points).isValid(), true once the bounds were
\* extended by a point, so also for the bounds of a single point
BoundsIsValid(points) == Len(points) > 0

\* MapUpdater lines 51-80: the body of the effect, on the props
\* targetLocation (target) and relatedLocations
MapUpdater(target, relatedLocations) ==
  LET validRelated == ValidRelated(relatedLocations)
      points == IF isValidLocation(target)
                THEN Append(validRelated, target)
                ELSE validRelated
  IN  IF Len(validRelated) > 0
      THEN IF Len(points) > 0 /\ BoundsIsValid(points)
           THEN FitBounds(points) ELSE NoOp
      ELSE IF isValidLocation(target)
           THEN FlyTo(target, FlyZoom, FlyDuration)
           ELSE NoOp

MaxRelated == 3

Paris  == Loc(Num(488), Num(22))
Tokyo  == Loc(Num(356), Num(1396))
London == Loc(Num(515), Num(-1))
DecideTargets == {NullLoc, Paris, Loc(Num(910), Num(0)), Loc(NaN, NaN)}
DecideRelated ==
  {NoRel} \cup
  {RelArr(r) : r \in SeqsUpTo({Tokyo, London, Paris, Loc(Num(950), Num(2000)),
                               Loc(NaN, NaN)}, MaxRelated)}

InitDecide ==
  /\ AppOff
  /\ fnIn \in [target : DecideTargets, related : DecideRelated]
  /\ fnOut = NoOp
  /\ fnDone = FALSE

\* the effect of MapUpdater run once on its two props
Decide ==
  /\ ~fnDone
  /\ fnOut' = MapUpdater(fnIn.target, fnIn.related)
  /\ fnDone' = TRUE
  /\ UNCHANGED <<fnIn, storeVars, appVars, mapVars>>

SpecDecide == InitDecide /\ [][Decide]_vars

\* the related locations that are valid GeoLocations, then the target if
\* it is one
ValidPoints(target, related) ==
  (IF related.k = "arr" THEN SelectSeq(related.items, ValidGeoLocation)
   ELSE <<>>)
    \o (IF ValidGeoLocation(target) THEN <<target>> ELSE <<>>)

\* the points of a sequence, as a set
PointSet(points) == {points[i] : i \in 1..Len(points)}

\* C22: with a related set that is not empty the point set is the valid
\* related locations and the target if valid; a point set of one point or
\* none gives no command; any other gives FitBounds over the set with
\* padding 50, zoom at most 15 and duration 1.5 s, and never a FlyTo.
C22_FitBoundsOverRelated ==
  (fnDone /\ fnIn.related.k = "arr" /\ Len(fnIn.related.items) > 0) =>
    /\ fnOut.op # "FlyTo"
    /\ IF Cardinality(PointSet(ValidPoints(fnIn.target, fnIn.related))) <= 1
       THEN fnOut = NoOp
       ELSE /\ fnOut.op = "FitBounds"
            /\ PointSet(fnOut.points)
                 = PointSet(ValidPoints(fnIn.target, fnIn.related))
            /\ fnOut.padding = 50
            /\ fnOut.zoom = 15
            /\ fnOut.duration = 15

\* C23: with an empty related set the command is FlyTo(target, zoom 15,
\* duration 2 s) when the target is a valid GeoLocation and none otherwise;
\* no target and no related give none, and a valid target with two valid
\* related locations gives FitBounds over the three.
C23_FlyToSingleTarget ==
  fnDone =>
    /\ (fnIn.related.k # "arr" \/ fnIn.related.items = <<>>) =>
         fnOut = IF ValidGeoLocation(fnIn.target)
                 THEN [NoOp EXCEPT !.op = "FlyTo", !.center = fnIn.target,
                                   !.zoom = 15, !.duration = 20]
                 ELSE NoOp
    /\ (fnIn.target = Paris /\ fnIn.related = RelArr(<<Tokyo, London>>)) =>
         /\ fnOut.op = "FitBounds"
         /\ PointSet(fnOut.points) = {Paris, Tokyo, London}

(***************************************************************************)
(* MapComponent: its renders and effects.  The props are what App hands    *)
(* down: userLocation, targetLocation and the relatedLocations of the last *)
(* model message.  An effect runs after the first render and after every   *)
(* render in which one of its dependencies differs.                        *)
(***************************************************************************)
RecenterZoom     == 16
RecenterDuration == 15
MaxRecenter      == 3

Props(user, target, related) ==
  [mounted |-> TRUE, userLocation |-> user, targetLocation |-> target,
   relatedLocations |-> related]

\* lines 239-241: the target handed to MapUpdater
ActiveTarget(p) ==
  IF isValidLocation(p.targetLocation) THEN p.targetLocation
  ELSE IF isValidLocation(p.userLocation) THEN p.userLocation
  ELSE NullLoc

\* lines 244-246: the related locations handed to MapUpdater
ValidRelatedLocations(p) == RelArr(ValidRelated(p.relatedLocations))

\* the calls a command stands for: none for NoOp
Issued(cmd) == IF cmd.op = "NoOp" THEN <<>> ELSE <<cmd>>

\* line 371 and lines 51-80: the effect of MapUpdater after a render with
\* props p
UpdaterEffect(p) ==
  Issued(MapUpdater(ActiveTarget(p), ValidRelatedLocations(p)))

\* line 80: the dependencies of that effect
UpdaterDeps(p) == <<ActiveTarget(p), ValidRelatedLocations(p)>>

\* lines 86-94: the effect of MapRecenter
RecenterEffect(trigger, location) ==
  IF trigger > 0 /\ isValidLocation(location)
  THEN <<FlyTo(location, RecenterZoom, RecenterDuration)>>
  ELSE <<>>

\* the props App can hand down: the position the browser reports, a
\* target (a suggestion, a click, also one out of range), the related
\* locations of a reply
MapPropsSet ==
  { Props(user, target, related) :
      user \in {NullLoc, London},
      target \in {NullLoc, Paris, Loc(Num(100), Num(2000))},
      related \in {NoRel, RelArr(<<Paris>>), RelArr(<<Tokyo>>),
                   RelArr(<<Tokyo, London>>)} }

\* the first render of the map and its effects
MapMount ==
  /\ ~mapProps.mounted
  /\ \E p \in MapPropsSet :
       /\ p.userLocation = NullLoc
       /\ mapProps' = p
       /\ commands' = UpdaterEffect(p) \o RecenterEffect(0, p.userLocation)
  /\ recenterTrigger' = 0
  /\ UNCHANGED <<fnVars, storeVars, appVars>>

\* App renders the map with other props; the browser reports the position
\* once (App.tsx lines 194-206)
MapRender ==
  /\ mapProps.mounted
  /\ \E p \in MapPropsSet :
       /\ p # mapProps
       /\ p.userLocation = mapProps.userLocation
            \/ mapProps.userLocation = NullLoc
       /\ mapProps' = p
       /\ commands' =
            (IF UpdaterDeps(p) # UpdaterDeps(mapProps)
             THEN UpdaterEffect(p) ELSE <<>>)
              \o (IF p.userLocation # mapProps.userLocation
                  THEN RecenterEffect(recenterTrigger, p.userLocation)
                  ELSE <<>>)
  /\ UNCHANGED <<fnVars, storeVars, appVars, recenterTrigger>>

\* prev => 1 in place of prev => prev + 1
NextTrigger_Once(prev) == 1

\* line 284: setRecenterTrigger(prev => prev + 1)
NextTrigger(prev) == prev + 1

\* lines 282-288: the recenter button, then the render and the effect of
\* MapRecenter when the trigger differs
handleRecenter ==
  /\ mapProps.mounted
  /\ recenterTrigger < MaxRecenter
  /\ IF isValidLocation(mapProps.userLocation)
     THEN /\ recenterTrigger' = NextTrigger(recenterTrigger)
          /\ commands' =
               IF recenterTrigger' # recenterTrigger
               THEN RecenterEffect(recenterTrigger', mapProps.userLocation)
               ELSE <<>>
     ELSE /\ recenterTrigger' = recenterTrigger
          /\ commands' = <<>>
  /\ UNCHANGED <<fnVars, storeVars, appVars, mapProps>>

InitMap == AppOff /\ FnOff

NextMap == MapMount \/ MapRender \/ handleRecenter

SpecMap == InitMap /\ [][NextMap]_vars

\* C24: the recenter trigger never decreases; a recenter request made
\* while userLocation is valid increments it and causes exactly one
\* FlyTo(userLocation, zoom 16, duration 1.5 s), also when the request is
\* repeated with userLocation unchanged; a request made while userLocation
\* is absent changes neither the trigger nor the viewport.
C24_RecenterFlies ==
  /\ [][recenterTrigger' >= recenterTrigger]_vars
  /\ [][handleRecenter =>
          IF ValidGeoLocation(mapProps.userLocation)
          THEN /\ recenterTrigger' = recenterTrigger + 1
               /\ commands' =
                    <<[NoOp EXCEPT !.op = "FlyTo",
                                   !.center = mapProps.userLocation,
                                   !.zoom = 16, !.duration = 15]>>
          ELSE /\ recenterTrigger' = recenterTrigger
               /\ commands' = <<>>]_vars

\* the second request in a row has flown to the user
C24_Witness ==
  /\ recenterTrigger >= 2
  /\ commands # <<>>
  /\ commands[1].op = "FlyTo"
  /\ commands[1].center = mapProps.userLocation
  /\ commands[1].zoom = 16

(***************************************************************************)
(* The application: a reply and the session of its send                    *)
(***************************************************************************)

\* the AI service answered or failed
ReplyStep == replySuccess \/ replyFailure

\* the sessions call i can have come from: their messages end with a user
\* message and give the history the call carries
OriginOf(i) ==
  {o \in 1..Len(sessions) :
     /\ sessions[o].messages # <<>>
     /\ sessions[o].messages[Len(sessions[o].messages)].role = "user"
     /\ HistoryContext(sessions[o].messages) = requests[i].history}

\* session o gets one model message, every other session keeps its
\* messages, and a session on display that is not o keeps its messages and
\* the map its target
DeliveredTo(o) ==
  /\ \E k \in 1..Len(sessions') :
       /\ sessions'[k].id = sessions[o].id
       /\ Len(sessions'[k].messages) = Len(sessions[o].messages) + 1
       /\ SubSeq(sessions'[k].messages, 1, Len(sessions[o].messages))
            = sessions[o].messages
       /\ sessions'[k].messages[Len(sessions'[k].messages)].role = "model"
  /\ \A j \in 1..Len(sessions) : \A k \in 1..Len(sessions') :
       (j # o /\ sessions'[k].id = sessions[j].id) =>
         sessions'[k].messages = sessions[j].messages
  /\ sessions[o].id # currentSessionId =>
       (messages' = messages /\ targetLocation' = targetLocation)

\* C25: the reply or the apology of a send is appended to the session that
\* was active when the send was made and to no other, whatever session is
\* active when it arrives, and the suggestedLocation of a reply to a
\* session that is no longer on display does not replace targetLocation.
C25_ReplyToOriginOnly ==
  [][ReplyStep =>
       \E i \in 1..Len(requests) :
         /\ requests' = Returned(i)
         /\ \E o \in OriginOf(i) : DeliveredTo(o)]_vars

(***************************************************************************)
(* The application: what changes a session                                 *)
(***************************************************************************)

\* session now is session was, or session was with one message appended
SameOrAppended(was, now) ==
  \/ now = was
  \/ /\ Len(now.messages) = Len(was.messages) + 1
     /\ SubSeq(now.messages, 1, Len(was.messages)) = was.messages

\* the sessions the load brings back bear the title and the updatedAt that
\* were stored
StoredStampKept ==
  (phase = "boot" /\ phase' = "run" /\ IsArray(lsSessions)) =>
    \A i \in 1..Len(lsSessions.val.items) : \A k \in 1..Len(sessions') :
      lsSessions.val.items[i].id = sessions'[k].id =>
        /\ sessions'[k].title = lsSessions.val.items[i].title
        /\ sessions'[k].updatedAt = lsSessions.val.items[i].updatedAt

\* C26: a session changes only when a message is appended to it: a switch
\* to it, its activation at startup and operations on other sessions leave
\* its messages, title and updatedAt as they were, so viewing a session
\* does not change the order of the sessions by updatedAt.
C26_ChangedOnlyByAppend ==
  /\ [][\A j \in 1..Len(sessions) : \A k \in 1..Len(sessions') :
          sessions'[k].id = sessions[j].id =>
            SameOrAppended(sessions[j], sessions'[k])]_vars
  /\ [][StoredStampKept]_vars

(***************************************************************************)
(* MapComponent: what the automatic viewport command depends on            *)
(***************************************************************************)

\* the commands of MapUpdater among those of the last step: every
\* FitBounds, and the FlyTo of line 76, which is the one at zoom 15
Automatic(cmds) ==
  LET ByUpdater(c) == c.op = "FitBounds" \/ (c.op = "FlyTo" /\ c.zoom = FlyZoom)
  IN  SelectSeq(cmds, ByUpdater)

\* C27: the automatic viewport command depends on targetLocation and on
\* the related set only: a render in which neither changed issues none,
\* whatever userLocation is or becomes; a render in which one changed, and
\* the first render, issue the command of (targetLocation, related); so
\* with targetLocation absent and no related location there is no FlyTo,
\* and userLocation is no point of a FitBounds.
C27_ViewportIgnoresUser ==
  [][(MapMount \/ MapRender) =>
       Automatic(commands') =
         IF mapProps.mounted
              /\ mapProps'.targetLocation = mapProps.targetLocation
              /\ mapProps'.relatedLocations = mapProps.relatedLocations
         THEN <<>>
         ELSE Issued(MapUpdater(mapProps'.targetLocation,
                                mapProps'.relatedLocations))]_vars

(***************************************************************************)
(* The application: messages are only appended                             *)
(***************************************************************************)

\* sequence a is the beginning of sequence b
IsPrefix(a, b) == Len(a) <= Len(b) /\ SubSeq(b, 1, Len(a)) = a

\* every session that stays keeps the messages it had, in place
SessionsGrowOnly ==
  \A j \in 1..Len(sessions) : \A k \in 1..Len(sessions') :
    sessions'[k].id = sessions[j].id =>
      IsPrefix(sessions[j].messages, sessions'[k].messages)

\* the conversation on display keeps its messages while the active session
\* is the same
DisplayGrowsOnly ==
  (phase = "run" /\ phase' = "run" /\ currentSessionId' = currentSessionId)
    => IsPrefix(messages, messages')

\* message now is message was but for the two location fields, which the
\* sanitization of a load may clear or filter
SameButLocations(was, now) ==
  /\ now.id = was.id
  /\ now.role = was.role
  /\ now.text = was.text
  /\ now.timestamp = was.timestamp
  /\ now.groundingChunks = was.groundingChunks

\* a load brings back the messages that were stored, one for one and in
\* their order
StoredMessagesKept ==
  (phase = "boot" /\ phase' = "run" /\ IsArray(lsSessions)) =>
    \A i \in 1..Len(lsSessions.val.items) : \A k \in 1..Len(sessions') :
      lsSessions.val.items[i].id = sessions'[k].id =>
        /\ Len(sessions'[k].messages)
             = Len(lsSessions.val.items[i].messages.items)
        /\ \A n \in 1..Len(sessions'[k].messages) :
             SameButLocations(lsSessions.val.items[i].messages.items[n],
                              sessions'[k].messages[n])

\* the store holds the messages of every session of the collection
MessagesStored ==
  \A i \in 1..Len(sessions) :
    /\ IsArray(lsSessions)
    /\ \E j \in 1..Len(lsSessions.val.items) :
         /\ lsSessions.val.items[j].id = sessions[i].id
         /\ lsSessions.val.items[j].messages.items = sessions[i].messages

\* C28: messages are append-only: the messages a session has at one state
\* are the beginning of the messages it has at every later state at which
\* it exists, through sends, replies, switches, new chats, deletes of other
\* sessions and reloads; no message is edited, moved or removed.
C28_AppendOnly ==
  /\ [][SessionsGrowOnly /\ DisplayGrowsOnly /\ StoredMessagesKept]_vars
  /\ [](phase = "run" => MessagesStored)

\* a reply has arrived in one session and another session is on display
C28_Witness ==
  /\ phase = "run"
  /\ requests = <<>>
  /\ Len(messages) >= 2
  /\ \E i \in 1..Len(sessions) :
       /\ sessions[i].id # currentSessionId
       /\ Len(sessions[i].messages) >= 3
       /\ sessions[i].messages[Len(sessions[i].messages)].role = "model"

(***************************************************************************)
(* The parser: replies with more than one tag                              *)
(***************************************************************************)

\* C30: for every reply text, one with two tags or more included, the
\* clean text of the message holds no match of the coordinate tag pattern,
\* and suggestedLocation comes from the first tag and from no other.
C30_NoTagLeft ==
  fnDone =>
    /\ ~COORDINATE_REGEX(fnOut.text).ok
    /\ LET t == FirstTag(fnIn.shape)
       IN  fnOut.suggestedLocation
             \in (IF t.wf THEN {Loc(Num(t.lat), Num(t.lng)), NoLoc}
                  ELSE {NoLoc})

(***************************************************************************)
(* The application: a send completes.  While the page stays open, a call   *)
(* to the AI service returns or fails in the end: the step that delivers   *)
(* its outcome is taken when it stays possible.                            *)
(***************************************************************************)
NextLive ==
  \/ Mount
  \/ Tick
  \/ createNewSession
  \/ toggleSidebar
  \/ loadSession
  \/ deleteSession
  \/ handleSendMessage
  \/ replySuccess
  \/ replyFailure

SpecLive == Init /\ [][NextLive]_vars /\ WF_vars(replySuccess \/ replyFailure)

\* the outcome of one call is delivered: the call is outstanding no more,
\* one model message, the reply or the apology, is appended to the
\* conversation on display, and the controller is idle
Completes ==
  /\ Len(requests') = Len(requests) - 1
  /\ Len(messages') = Len(messages) + 1
  /\ SubSeq(messages', 1, Len(messages)) = messages
  /\ messages'[Len(messages')].role = "model"
  /\ ~isLoading'

\* the controller is idle and would accept text
AcceptsNonBlank(text) == ~isLoading /\ Trim(text) # <<>> /\ ~Rejects(text)

\* C29: every accepted send completes: its call being answered or failing
\* in the end, one model message is appended for it, the reply or the
\* apology, and the controller goes from pending back to idle, where a
\* further send that is not blank is accepted.
C29_SendCompletes ==
  /\ (requests # <<>>) ~> (requests = <<>> /\ ~isLoading)
  /\ [][ReplyStep => Completes]_vars
  /\ [][(Len(messages') > Len(messages) /\ currentSessionId' = currentSessionId
           /\ messages'[Len(messages')].role = "model") => ReplyStep]_vars
  /\ [](phase = "run" => (isLoading <=> requests # <<>>))
  /\ []((phase = "run" /\ requests = <<>>) =>
          AcceptsNonBlank(<<" ", "h", "i", " ">>))

\* a send has been answered by the apology and the controller is idle
C29_Witness ==
  /\ phase = "run"
  /\ requests = <<>>
  /\ ~isLoading
  /\ Len(messages) >= 2
  /\ messages[Len(messages)].text = ApologyText
  /\ messages[Len(messages) - 1].role = "user"
  /\ AcceptsNonBlank(<<" ", "h", "i", " ">>)

====
